---- MODULE Spec2Model ----
(***************************************************************************)
(* State-machine model of the GRASS addon scripts r.hydro.flatten, r.mess, *)
(* r.slopeunits.metrics, r.maxent.predict and r.recode.attr.               *)
(*                                                                         *)
(* Every script is a straight-line pipeline of engine calls.  A run is     *)
(* modelled as the interpretation of the script's statement list: one      *)
(* action per kind of statement (name generation, engine call, failing     *)
(* engine call, region push/pop, return, atexit handler).  The engine's    *)
(* namespace, the tracker list and the computational region are the state. *)
(* The variable script selects which script the process runs.              *)
(***************************************************************************)
EXTENDS Integers, Sequences, FiniteSets, TLC

VARIABLES
    script,         \* which script this process runs
    \* ---- r.hydro.flatten -------------------------------------------------
    hOptions,       \* parsed options/flags: k, breaklines, min_size, filled_elevation
    hPhase,         \* "idle" | "start" | "main" | "exiting" | "exited"
    hPc,            \* index of the next statement of main
    RAST_REMOVE,    \* the tracker list (r.hydro.flatten.py:75)
    hLayers,        \* names of the layers that exist in the mapset
    hGenerated,     \* names returned by get_name so far
    hCreated,       \* names a creating engine call has been issued for
    hCalls,         \* source lines of the engine calls issued by main, in order
    hFailedLine,    \* line of the engine call that failed, 0 if none
    hAtexit,        \* handlers registered with atexit and not yet run
    hCleanups,      \* number of times cleanup() has run
    hDeleteFailed,  \* g.remove of cleanup() could not delete some layer
    hProg,          \* the statements main executes for hOptions
    hExit,          \* exit status of the process, -1 while it runs
    \* ---- r.mess ----------------------------------------------------------
    mOptions,       \* parsed options/flags: ref, proj_region, proj_env, flags, nvars
    mPhase,         \* "idle" | "start" | "main" | "exiting" | "exited"
    mPc,            \* index of the next statement of main
    CLEAN_RAST,     \* the tracker list (r.mess.py:160)
    mLayers,        \* mapset content: element name -> its data
    mFiles,         \* scratch files made with mkstemp that still exist
    mGenerated,     \* names returned by create_temporary_name so far
    mCreated,       \* names a creating engine call has been issued for
    mMaskAtStart,   \* a raster MASK was in the mapset when the run started
    mCalls,         \* source lines of the engine calls issued by main, in order
    mMutations,     \* number of issued calls that create, rename or remove an
                    \* element or set the region
    WIND,           \* the mapset's current (ambient) region
    WIND_OVERRIDE,  \* the temporary region of this process, "" when unset
    mPushed,        \* region in effect before each use_temp_region not yet undone
    mPushes,        \* number of use_temp_region calls
    mPops,          \* number of del_temp_region calls that removed a temporary region
    mPopOk,         \* every pop so far restored the region of its push
    mAtexit,        \* handlers registered with atexit and not yet run
    mCleanups,      \* number of times cleanup() has run
    mDeleteFailed,  \* a g.remove of cleanup() failed
    mProg,          \* the statements main executes for mOptions
    mExit,          \* exit status of the process, -1 while it runs
    \* ---- r.slopeunits.metrics --------------------------------------------
    sPhase,         \* "idle" | "start" | "main" | "exiting" | "exited"
    sPc,            \* index of the next statement of main
    sProg,          \* the statements main executes
    rm_rasters,     \* tracker list of rasters (r.slopeunits.metrics.py:84)
    rm_vectors,     \* tracker list of vectors (r.slopeunits.metrics.py:85)
    sLayers,        \* mapset content: "<type>:<name>" -> who wrote it
    sCreated,       \* elements this run has issued a creating call for
    sTempRegion,    \* WIND_OVERRIDE is set
    sCalls,         \* source lines of the engine calls issued, in order
    sAtexit,        \* handlers registered with atexit and not yet run
    sCleanups,      \* number of times cleanup() has run
    sExit,          \* exit status of the process, -1 while it runs
    \* ---- r.maxent.predict ------------------------------------------------
    pOptions,       \* parsed options/flags and what the checks will find
    pPhase,         \* "idle" | "start" | "main" | "exiting" | "exited"
    pPc,            \* the block of main that runs next
    pN,             \* index n of the export loop
    path_to_java,   \* local of main, "<unbound>" until assigned
    temp_directory, \* local of main, "<unbound>" until assigned
    missing_variables, \* local of main, "<unbound>" until assigned
    returncode,     \* process.returncode, -1 before Maxent has run
    pFiles,         \* directories and files on disk this run has written
    pWIND,          \* the mapset's current (ambient) region
    pCalls,         \* source lines of the engine calls issued, in order
    pImported,      \* r.in.gdal has been issued
    pHow,           \* how main ended: "" | "return" | "fatal" | an exception name
    pMsg,           \* the message of gs.fatal
    pAtexit,        \* handlers registered with atexit and not yet run
    pCleanups,      \* number of times cleanup() has run
    pExit,          \* exit status of the process, -1 while it runs
    \* ---- r.recode.attr ---------------------------------------------------
    aOptions,       \* the rules table, the output names, the layers in the way
    aPhase,         \* "idle" | "main" | "exited"
    aPc,            \* the statement of main that runs next
    aX,             \* loop variable x
    dimData,        \* myData.shape
    nmOutput,       \* output name of the current iteration
    aRecodes,       \* the r.recode calls issued, in order
    aFiles,         \* number of scratch files made with mkstemp that still exist
    aLayers,        \* raster layers in the current mapset
    aHow,           \* how main ended: "" | "return" | "fatal" | an exception name
    aExit,          \* exit status of the process, -1 while it runs
    \* ---- r.mess: recode rules and similarity of one variable --------------
    rPc,            \* the step that runs next
    stval,          \* r.stats output: value -> count
    sstval,         \* the (value, count) pairs sorted by value
    cumfreq,        \* c: cumulative percentage per value, as fractions
    Dmin,           \* minimum of the projection layer (r.univar)
    Dmax,           \* maximum of the projection layer (r.univar)
    tmprule,        \* the lines written to the rules file
    rV,             \* value of a cell of the projection layer (tmpf2)
    rF,             \* value r.recode gives that cell (tmpf3)
    rIes,           \* value r.mapcalc gives that cell (ipi)
    \* ---- v.in.gbif: process_csv --------------------------------------------
    gRows,          \* the rows of the input file (gbifraw), by kind of content
    gMissing,       \* the input file does not exist
    gLocale,        \* the system default encoding (primary_encoding=None)
    gPc,            \* "idle" | "primary" | "fallback" | "reading" | "returned" | "fatal"
    gErrors,        \* error mode of the running pass: "strict" | "replace"
    gPos,           \* index of the next row the csv reader yields
    gOut,           \* the rows of the output file (new_gbif_csv)
    gAttempts,      \* the error modes of the process_file calls made, in order
    gRaised,        \* the exception each process_file call raised, "" for none
    gMsg,           \* the message of gs.fatal
    \* ---- v.boxplot -------------------------------------------------------
    bOrder,         \* option order: "" | "ascending" | "descending"
    df,             \* the rows v.db.select returns: (group, value)
    uid,            \* the distinct groups, in the order list(set(groups)) gives
    bxData,         \* data: the values of each group, in the order of uid
    sf,             \* the groups with their medians, then the sorted groups
    sfo,            \* the position of each box, in the order of uid
    bBoxes,         \* what ax.boxplot draws: position, label and values of each box
    bPc,            \* the statement of main that runs next
    \* ---- r.hydro.flatten, the rasters ------------------------------------
    fPercentile,    \* option percentile
    ground,         \* option input: the elevation of each cell of a one-row region
    rfillstats,     \* tmp_rfillstats: the filled elevation
    fBuffer,        \* tmp_buffer: the distance bands around the holes
    fClump,         \* tmp_clump: the water body each cell belongs to
    fStrip,         \* tmp_strip: the water body of each cell of the outermost band
    water_elevation, \* the output raster water_elevation, each value times 2
    fPc,            \* the statement of main that runs next
    \* ---- two concurrent runs of one script in one mapset ------------------
    tKeep,          \* r.hydro.flatten: flag -k of both runs
    tPid,           \* the process id of each run
    tTodo,          \* the temporary names each run has still to make
    tUuids,         \* the number of uuid4() calls each run has made
    tCreated,       \* the temporary layer names each run has created
    \* ---- two concurrent runs of r.mess with ref_rast: the MASK -------------
    kOverwrite,     \* GRASS_OVERWRITE: the engine calls replace existing rasters
    kVars,          \* the number of ref_env layers (loop iterations) of each run
    kPc,            \* the statement each run executes next
    kI,             \* the loop iteration each run is in
    kMASK,          \* the raster MASK of the mapset: whose mask it is (of, 0 when
                    \* there is none) and which run put or took it last (by)
    kTmp,           \* the raster tmpfmask of each run: whose mask it is, 0 if none
    kStats,         \* the MASK each run computed its statistics under, per iteration
    kFailed,        \* the line each run failed at (0 if none) and the MASK then
    \* ---- r.maxent.setup ---------------------------------------------------
    uOptions,       \* the parsed options and flags
    uEnv,           \* the process: is java found, are stdin / stdout regular files
    uBefore,        \* the addon scripts directory before the run
    uFiles,         \* the addon scripts directory: maxent.jar and the java text file
    uPc,            \* the statement of main that runs next
    uHow,           \* how the run ended: "" | "return" | "fatal"
    uMsg,           \* the messages printed
    \* ---- the cached path to java: r.maxent.setup, then r.maxent.predict ----
    cJava,          \* options["java"] of r.maxent.setup, a sequence of characters
    cOverwrite,     \* the -u flag of r.maxent.setup
    cFiles,         \* the paths that are regular files
    cFunctional,    \* the paths that run as `<path> -version`
    cSystemJava,    \* does `java -version` run
    cTxt,           \* the content of r_maxent_path_to_java.txt, NoFile if absent
    cWritten,       \* has set_path_to_java written the text file
    cJav,           \* what check_java_txtfile returned
    cPathToJava,    \* path_to_java of the main of r.maxent.predict
    cPc,            \* "setup" | "txtfile" | "select" | "done"
    \* ---- r.maxent.predict and the Maxent subprocess, two pipes -------------
    qChild,         \* the lines the subprocess has still to write, in order
    qAlive,         \* the subprocess has not exited
    qStdout,        \* the lines in the stdout pipe
    qStderr,        \* the lines in the stderr pipe
    qStage,         \* the script: "stdout" | "stderr" | "wait" | "done"
    qForwarded,     \* the lines handed to gs.info
    qMissing,       \* has missing_variables been assigned
    \* ---- r.mess: the recode rules of recode_reference_vector ---------------
    vDigits,        \* the option digits
    vVolval,        \* volval: the rows <<value in tenths, count>> of the query
    vC,             \* c: the cumulative percentages
    vDrange,        \* Dmin and Dmax of the discretised projection layer
    vEnv,           \* envmin, envmax, e1, e2
    vRule,          \* the rules written to tmprule
    vPc,            \* "select" | "range" | "rules" | "done"
    \* ---- r.hydro.flatten: the two outputs, with breaklines and min_size ----
    eOptions,       \* percentile, is breaklines given, min_size in cells (0: not given)
    eGround,        \* the input raster
    eLines,         \* the cells the breaklines cross
    eFill,          \* tmp_rfillstats
    eBuffer,        \* tmp_buffer, with the breaklines patched in when given
    eClump,         \* tmp_clump
    eStrip,         \* tmp_strip
    eElevationRes,  \* tmp_water_elevation_zonal_res
    eStddevRes,     \* tmp_water_elevation_stddev_zonal_res
    eOut,           \* the rasters water_elevation and water_elevation_stddev
    ePc             \* "strip" | "zonal" | "outputs" | "done"

hydroVars == <<hOptions, hPhase, hPc, RAST_REMOVE, hLayers, hGenerated, hCreated, hCalls,
               hFailedLine, hAtexit, hCleanups, hDeleteFailed, hExit, hProg>>

messVars == <<mOptions, mPhase, mPc, CLEAN_RAST, mLayers, mFiles, mGenerated, mCreated, mMaskAtStart,
              mCalls, mMutations, WIND, WIND_OVERRIDE, mPushed, mPushes,
              mPops, mPopOk, mAtexit, mCleanups, mDeleteFailed, mExit, mProg>>

slopeVars == <<sPhase, sPc, sProg, rm_rasters, rm_vectors, sLayers, sCreated,
               sTempRegion, sCalls, sAtexit, sCleanups, sExit>>

predictVars == <<pOptions, pPhase, pPc, pN, path_to_java, temp_directory,
                 missing_variables, returncode, pFiles, pWIND, pCalls,
                 pImported, pHow, pMsg, pAtexit, pCleanups, pExit>>

attrVars == <<aOptions, aPhase, aPc, aX, dimData, nmOutput, aRecodes, aFiles,
              aLayers, aHow, aExit>>

rulesVars == <<rPc, stval, sstval, cumfreq, Dmin, Dmax, tmprule, rV, rF, rIes>>

gbifVars == <<gRows, gMissing, gLocale, gPc, gErrors, gPos, gOut, gAttempts,
    gRaised, gMsg>>

boxplotVars == <<bOrder, df, uid, bxData, sf, sfo, bBoxes, bPc>>

flattenVars == <<fPercentile, ground, rfillstats, fBuffer, fClump, fStrip,
    water_elevation, fPc>>

twoVars == <<tKeep, tPid, tTodo, tUuids, tCreated>>

masksVars == <<kOverwrite, kVars, kPc, kI, kMASK, kTmp, kStats, kFailed>>

setupVars == <<uOptions, uEnv, uBefore, uFiles, uPc, uHow, uMsg>>

cacheVars == <<cJava, cOverwrite, cFiles, cFunctional, cSystemJava, cTxt,
    cWritten, cJav, cPathToJava, cPc>>

pipesVars == <<qChild, qAlive, qStdout, qStderr, qStage, qForwarded,
    qMissing>>

vectorVars == <<vDigits, vVolval, vC, vDrange, vEnv, vRule, vPc>>

outputsVars == <<eOptions, eGround, eLines, eFill, eBuffer, eClump, eStrip,
    eElevationRes, eStddevRes, eOut, ePc>>

vars == <<script, hydroVars, messVars, slopeVars, predictVars, attrVars,
          rulesVars,
          gbifVars,
          boxplotVars,
          flattenVars,
          twoVars,
          masksVars,
          setupVars,
          cacheVars,
          pipesVars,
          vectorVars,
          outputsVars>>

\* what a step of one script leaves alone: the state of the other scripts
NotHydro == <<script, messVars, slopeVars, predictVars, attrVars, rulesVars,
          gbifVars,
          boxplotVars,
          flattenVars,
          twoVars,
          masksVars,
          setupVars,
          cacheVars,
          pipesVars,
          vectorVars,
          outputsVars>>

NotMess == <<script, hydroVars, slopeVars, predictVars, attrVars, rulesVars,
          gbifVars,
          boxplotVars,
          flattenVars,
          twoVars,
          masksVars,
          setupVars,
          cacheVars,
          pipesVars,
          vectorVars,
          outputsVars>>

NotSlope == <<script, hydroVars, messVars, predictVars, attrVars, rulesVars,
          gbifVars,
          boxplotVars,
          flattenVars,
          twoVars,
          masksVars,
          setupVars,
          cacheVars,
          pipesVars,
          vectorVars,
          outputsVars>>

NotPredict == <<script, hydroVars, messVars, slopeVars, attrVars, rulesVars,
          gbifVars,
          boxplotVars,
          flattenVars,
          twoVars,
          masksVars,
          setupVars,
          cacheVars,
          pipesVars,
          vectorVars,
          outputsVars>>

NotAttr == <<script, hydroVars, messVars, slopeVars, predictVars, rulesVars,
          gbifVars,
          boxplotVars,
          flattenVars,
          twoVars,
          masksVars,
          setupVars,
          cacheVars,
          pipesVars,
          vectorVars,
          outputsVars>>

NotRules == <<script, hydroVars, messVars, slopeVars, predictVars, attrVars,
          gbifVars,
          boxplotVars,
          flattenVars,
          twoVars,
          masksVars,
          setupVars,
          cacheVars,
          pipesVars,
          vectorVars,
          outputsVars>>

NotGbif == <<script, hydroVars, messVars, slopeVars, predictVars, attrVars,
    rulesVars,
          boxplotVars,
          flattenVars,
          twoVars,
          masksVars,
          setupVars,
          cacheVars,
          pipesVars,
          vectorVars,
          outputsVars>>

NotBoxplot == <<script, hydroVars, messVars, slopeVars, predictVars,
    attrVars, rulesVars, gbifVars,
          flattenVars,
          twoVars,
          masksVars,
          setupVars,
          cacheVars,
          pipesVars,
          vectorVars,
          outputsVars>>

NotFlatten == <<script, hydroVars, messVars, slopeVars, predictVars,
    attrVars, rulesVars, gbifVars, boxplotVars,
          twoVars,
          masksVars,
          setupVars,
          cacheVars,
          pipesVars,
          vectorVars,
          outputsVars>>

NotTwo == <<script, hydroVars, messVars, slopeVars, predictVars, attrVars,
    rulesVars, gbifVars, boxplotVars, flattenVars,
          masksVars,
          setupVars,
          cacheVars,
          pipesVars,
          vectorVars,
          outputsVars>>

NotMasks == <<script, hydroVars, messVars, slopeVars, predictVars, attrVars,
    rulesVars, gbifVars, boxplotVars, flattenVars, twoVars,
          setupVars,
          cacheVars,
          pipesVars,
          vectorVars,
          outputsVars>>

NotSetup == <<script, hydroVars, messVars, slopeVars, predictVars, attrVars,
    rulesVars, gbifVars, boxplotVars, flattenVars, twoVars, masksVars,
          cacheVars,
          pipesVars,
          vectorVars,
          outputsVars>>

NotCache == <<script, hydroVars, messVars, slopeVars, predictVars, attrVars,
    rulesVars, gbifVars, boxplotVars, flattenVars, twoVars, masksVars,
    setupVars,
          pipesVars,
          vectorVars,
          outputsVars>>

NotPipes == <<script, hydroVars, messVars, slopeVars, predictVars, attrVars,
    rulesVars, gbifVars, boxplotVars, flattenVars, twoVars, masksVars,
    setupVars, cacheVars,
          vectorVars,
          outputsVars>>

NotVector == <<script, hydroVars, messVars, slopeVars, predictVars,
    attrVars, rulesVars, gbifVars, boxplotVars, flattenVars, twoVars,
    masksVars, setupVars, cacheVars, pipesVars,
          outputsVars>>

NotOutputs == <<script, hydroVars, messVars, slopeVars, predictVars,
    attrVars, rulesVars, gbifVars, boxplotVars, flattenVars, twoVars,
    masksVars, setupVars, cacheVars, pipesVars, vectorVars>>

Range(s) == {s[i] : i \in 1..Len(s)}

NoDuplicates(s) == \A i, j \in 1..Len(s) : s[i] = s[j] => i = j

(***************************************************************************)
(* Statements of a pipeline.                                               *)
(***************************************************************************)
\* name = get_name(base): generate (and register) a temporary name
GenName(base, line) ==
    [kind |-> "name", op |-> "get_name", line |-> line, base |-> base,
     in |-> {}, out |-> ""]

\* gs.run_command / gs.mapcalc / gs.write_command / gs.parse_command
Call(op, line, ins, out) ==
    [kind |-> "call", op |-> op, line |-> line, base |-> "",
     in |-> ins, out |-> out]

(***************************************************************************)
(* r.hydro.flatten                                                         *)
(***************************************************************************)
HydroOptions ==
    [k : BOOLEAN, breaklines : BOOLEAN, min_size : BOOLEAN,
     filled_elevation : BOOLEAN]

\* The name get_name(basename) returns: intermediate_<basename> with -k,
\* gs.append_node_pid(basename) otherwise.
get_name_result(o, basename) ==
    IF o.k THEN "intermediate_" \o basename ELSE basename \o "_node_pid"

\* The statements of main(), in program order, for the parsed options o.
\* tmp_buffer is rebound to the patched buffer when breaklines are given.
HydroMain(o) ==
    LET T(b) == get_name_result(o, b)
        tmp_buffer == IF o.breaklines THEN T("buffer_with_breaklines")
                      ELSE T("buffer")
    IN  << Call("g.region", 117, {}, ""),
           Call("g.region", 118, {}, ""),
           GenName("rfillstats", 120) >>
        \o (IF o.breaklines
            THEN << GenName("breaklines", 123),
                    Call("v.to.rast", 124, {"breaklines"}, T("breaklines")) >>
            ELSE << >>)
        \o << Call("r.fill.stats", 132, {"ground"}, T("rfillstats")),
              GenName("holes", 140),
              Call("r.mapcalc", 141, {T("rfillstats")}, T("holes")),
              GenName("buffer", 142),
              Call("r.buffer", 143, {T("holes")}, T("buffer")) >>
        \o (IF o.breaklines
            THEN << GenName("buffer_with_breaklines", 151),
                    Call("r.patch", 152, {T("breaklines"), T("buffer")},
                         T("buffer_with_breaklines")) >>
            ELSE << >>)
        \o << GenName("reclass_for_clump", 159),
              Call("r.reclass", 160, {tmp_buffer}, T("reclass_for_clump")),
              GenName("clump", 167),
              Call("r.clump", 168, {T("reclass_for_clump")}, T("clump")),
              GenName("strip", 169),
              Call("r.mapcalc", 170, {tmp_buffer, T("clump")}, T("strip")),
              GenName("water_elevation", 173),
              Call("r.stats.quantile", 174, {T("strip"), T("rfillstats")},
                   T("water_elevation")),
              GenName("water_stddev", 181),
              Call("r.stats.zonal", 182, {T("strip"), T("rfillstats")},
                   T("water_stddev")),
              GenName("water_elevation_zonal", 189),
              Call("r.stats.zonal", 190, {T("clump"), T("water_elevation")},
                   T("water_elevation_zonal")),
              GenName("water_elevation_stddev_zonal", 197),
              Call("r.stats.zonal", 198, {T("clump"), T("water_stddev")},
                   T("water_elevation_stddev_zonal")),
              GenName("water_elevation_zonal_res", 205) >>
        \o (IF o.breaklines
            THEN << GenName("water_elevation_zonal_res_breaklines", 207),
                    Call("r.mapcalc", 210,
                         {T("strip"), T("water_elevation_zonal")},
                         T("water_elevation_zonal_res_breaklines")),
                    Call("r.neighbors", 214,
                         {T("water_elevation_zonal_res_breaklines"),
                          T("breaklines")},
                         T("water_elevation_zonal_res")) >>
            ELSE << Call("r.mapcalc", 222,
                         {T("strip"), T("water_elevation_zonal")},
                         T("water_elevation_zonal_res")) >>)
        \o << GenName("water_elevation_stddev_zonal_res", 226),
              Call("r.mapcalc", 227,
                   {T("strip"), T("water_elevation_stddev_zonal")},
                   T("water_elevation_stddev_zonal_res")) >>
        \o (IF o.min_size
            THEN << GenName("reclass", 232),
                    Call("r.reclass", 233, {T("water_elevation_zonal_res")},
                         T("reclass")),
                    GenName("clump_reclass", 240),
                    Call("r.clump", 241, {T("reclass")}, T("clump_reclass")),
                    GenName("size", 242),
                    Call("r.stats.zonal", 243,
                         {T("clump_reclass"), T("reclass")}, T("size")),
                    Call("r.mapcalc", 250,
                         {T("size"), T("water_elevation_zonal_res")},
                         "water_elevation"),
                    Call("r.mapcalc", 253,
                         {T("size"), T("water_elevation_stddev_zonal_res")},
                         "water_elevation_stddev") >>
            ELSE << Call("r.mapcalc", 257, {T("water_elevation_zonal_res")},
                         "water_elevation"),
                    Call("r.mapcalc", 258,
                         {T("water_elevation_stddev_zonal_res")},
                         "water_elevation_stddev") >>)
        \o << Call("r.colors", 261, {"water_elevation", "ground"}, ""),
              Call("r.colors", 262, {"water_elevation_stddev"}, ""),
              Call("r.support", 263, {"water_elevation"}, ""),
              Call("r.support", 264, {"water_elevation_stddev"}, "") >>
        \o (IF o.filled_elevation
            THEN << Call("r.patch", 266,
                         {T("rfillstats"), "water_elevation"},
                         "filled_elevation"),
                    Call("r.colors", 271, {"filled_elevation", "ground"}, ""),
                    Call("r.support", 272, {"filled_elevation"}, "") >>
            ELSE << >>)

\* The layers the user supplies: options input and breaklines.
HydroUserLayers == {"ground", "breaklines"}

HydroStmt == hProg[hPc]

HydroInMain ==
    /\ script = "r.hydro.flatten"
    /\ hPhase = "main"
    /\ hPc <= Len(hProg)

\* __main__: atexit.register(cleanup), then main() is entered.
hydro_register_cleanup ==
    /\ script = "r.hydro.flatten"
    /\ hPhase = "start"
    /\ hAtexit' = Append(hAtexit, "cleanup")
    /\ hPhase' = "main"
    /\ UNCHANGED <<NotHydro, hProg, hCreated, hOptions, hPc, RAST_REMOVE, hLayers, hGenerated,
                   hCalls, hFailedLine, hCleanups, hDeleteFailed, hExit>>

\* get_name(basename): with -k the name is only returned, otherwise it is
\* appended to RAST_REMOVE before it is returned.
get_name ==
    /\ HydroInMain
    /\ HydroStmt.kind = "name"
    /\ LET name == get_name_result(hOptions, HydroStmt.base)
       IN  /\ RAST_REMOVE' = IF hOptions.k THEN RAST_REMOVE
                             ELSE Append(RAST_REMOVE, name)
           /\ hGenerated' = hGenerated \cup {name}
    /\ hPc' = hPc + 1
    /\ UNCHANGED <<NotHydro, hProg, hCreated, hOptions, hPhase, hLayers, hCalls, hFailedLine,
                   hAtexit, hCleanups, hDeleteFailed, hExit>>

\* A faulty variant of hydro_run_command: the engine call ends without its
\* output layer being written to the mapset.
hydro_run_command_output_unrecorded ==
    /\ HydroInMain
    /\ HydroStmt.kind = "call"
    /\ hCalls' = Append(hCalls, HydroStmt.line)
    /\ hPc' = hPc + 1
    /\ UNCHANGED <<NotHydro, hProg, hOptions, hPhase, RAST_REMOVE, hGenerated,
                   hFailedLine, hAtexit, hCleanups, hDeleteFailed, hExit,
                   hCreated, hLayers>>

\* An engine call of main() that succeeds: its output layer exists afterwards.
hydro_run_command ==
    /\ HydroInMain
    /\ HydroStmt.kind = "call"
    /\ hCalls' = Append(hCalls, HydroStmt.line)
    /\ hCreated' = hCreated \cup ({HydroStmt.out} \ {""})
    /\ hLayers' = IF HydroStmt.out = "" THEN hLayers
                  ELSE hLayers \cup {HydroStmt.out}
    /\ hPc' = hPc + 1
    /\ UNCHANGED <<NotHydro, hProg, hOptions, hPhase, RAST_REMOVE, hGenerated,
                   hFailedLine, hAtexit, hCleanups, hDeleteFailed, hExit>>

\* A faulty hydro_run_command_fails: the failure of the engine call is
\* ignored and main() goes on.
hydro_run_command_fails_ignored ==
    /\ HydroInMain
    /\ HydroStmt.kind = "call"
    /\ hCalls' = Append(hCalls, HydroStmt.line)
    /\ hCreated' = hCreated \cup ({HydroStmt.out} \ {""})
    /\ hFailedLine' = HydroStmt.line
    /\ hPc' = hPc + 1
    /\ UNCHANGED <<NotHydro, hProg, hOptions, hPhase, RAST_REMOVE, hLayers,
                   hGenerated, hAtexit, hCleanups, hDeleteFailed, hExit>>

\* An engine call of main() that fails: run_command raises CalledModuleError
\* (gs.mapcalc calls gs.fatal), nothing in main() catches it, the interpreter
\* leaves main with status 1.  The failed module may leave its output behind.
hydro_run_command_fails ==
    /\ HydroInMain
    /\ HydroStmt.kind = "call"
    /\ hCalls' = Append(hCalls, HydroStmt.line)
    /\ hCreated' = hCreated \cup ({HydroStmt.out} \ {""})
    /\ hFailedLine' = HydroStmt.line
    /\ \E partial \in BOOLEAN :
          hLayers' = IF partial /\ HydroStmt.out # ""
                     THEN hLayers \cup {HydroStmt.out} ELSE hLayers
    /\ hPhase' = "exiting"
    /\ hExit' = 1
    /\ UNCHANGED <<NotHydro, hProg, hOptions, hPc, RAST_REMOVE, hGenerated, hAtexit,
                   hCleanups, hDeleteFailed>>

\* main() returns None: sys.exit(None) ends the process with status 0.
hydro_main_returns ==
    /\ script = "r.hydro.flatten"
    /\ hPhase = "main"
    /\ hPc = Len(hProg) + 1
    /\ hPhase' = "exiting"
    /\ hExit' = 0
    /\ UNCHANGED <<NotHydro, hProg, hCreated, hOptions, hPc, RAST_REMOVE, hLayers, hGenerated,
                   hCalls, hFailedLine, hAtexit, hCleanups, hDeleteFailed>>

\* cleanup(), run by atexit: one g.remove -fb of every name of RAST_REMOVE,
\* skipped when the list is empty.  g.remove deletes every listed raster it
\* can; stuck is the set of layers it cannot delete.
hydro_cleanup ==
    /\ script = "r.hydro.flatten"
    /\ hPhase = "exiting"
    /\ hAtexit # << >>
    /\ hAtexit' = SubSeq(hAtexit, 1, Len(hAtexit) - 1)
    /\ hCleanups' = hCleanups + 1
    /\ \E stuck \in {{}} \cup {{n} : n \in hLayers \cap Range(RAST_REMOVE)} :
          /\ hLayers' = (hLayers \ Range(RAST_REMOVE)) \cup stuck
          /\ hDeleteFailed' = (hDeleteFailed \/ stuck # {})
    /\ UNCHANGED <<NotHydro, hProg, hCreated, hOptions, hPhase, hPc, RAST_REMOVE, hGenerated,
                   hCalls, hFailedLine, hExit>>

\* Every atexit handler has run: the process is gone.
hydro_exit ==
    /\ script = "r.hydro.flatten"
    /\ hPhase = "exiting"
    /\ hAtexit = << >>
    /\ hPhase' = "exited"
    /\ UNCHANGED <<NotHydro, hProg, hCreated, hOptions, hPc, RAST_REMOVE, hLayers, hGenerated,
                   hCalls, hFailedLine, hAtexit, hCleanups, hDeleteFailed,
                   hExit>>

OutputsIdle ==
    /\ eOptions = [percentile |-> 0, breaklines |-> FALSE, min_size |-> 0]
    /\ eGround = << >>
    /\ eLines = {}
    /\ eFill = << >>
    /\ eBuffer = << >>
    /\ eClump = << >>
    /\ eStrip = << >>
    /\ eElevationRes = << >>
    /\ eStddevRes = << >>
    /\ eOut = [water_elevation |-> << >>, water_elevation_stddev |-> << >>]
    /\ ePc = "idle"

VectorIdle ==
    /\ vDigits = 0
    /\ vVolval = << >>
    /\ vC = << >>
    /\ vDrange = [Dmin |-> 0, Dmax |-> 0]
    /\ vEnv = [envmin |-> 0, envmax |-> 0, e1 |-> 0, e2 |-> 0]
    /\ vRule = << >>
    /\ vPc = "idle"

PipesIdle ==
    /\ qChild = << >>
    /\ qAlive = FALSE
    /\ qStdout = << >>
    /\ qStderr = << >>
    /\ qStage = "idle"
    /\ qForwarded = << >>
    /\ qMissing = FALSE

CacheIdle ==
    /\ cJava = << >>
    /\ cOverwrite = FALSE
    /\ cFiles = {}
    /\ cFunctional = {}
    /\ cSystemJava = FALSE
    /\ cTxt = << >>
    /\ cWritten = FALSE
    /\ cJav = << >>
    /\ cPathToJava = << >>
    /\ cPc = "idle"

SetupIdle ==
    /\ uOptions = [j |-> FALSE, u |-> FALSE, java |-> "", maxent |-> ""]
    /\ uEnv = [java_findable |-> FALSE, stdin_isfile |-> FALSE, stdout_isfile |-> FALSE]
    /\ uBefore = [jar |-> "none", txt |-> "none"]
    /\ uFiles = [jar |-> "none", txt |-> "none"]
    /\ uPc = "idle"
    /\ uHow = ""
    /\ uMsg = << >>

MasksIdle ==
    /\ kOverwrite = FALSE
    /\ kVars = 0
    /\ kPc = << >>
    /\ kI = << >>
    /\ kMASK = [of |-> 0, by |-> 0]
    /\ kTmp = << >>
    /\ kStats = << >>
    /\ kFailed = << >>

TwoIdle ==
    /\ tKeep = FALSE
    /\ tPid = << >>
    /\ tTodo = << >>
    /\ tUuids = << >>
    /\ tCreated = << >>

FlattenIdle ==
    /\ fPercentile = 0
    /\ ground = << >>
    /\ rfillstats = << >>
    /\ fBuffer = << >>
    /\ fClump = << >>
    /\ fStrip = << >>
    /\ water_elevation = << >>
    /\ fPc = "idle"

BoxplotIdle ==
    /\ bOrder = ""
    /\ df = << >>
    /\ uid = << >>
    /\ bxData = << >>
    /\ sf = << >>
    /\ sfo = << >>
    /\ bBoxes = {}
    /\ bPc = "idle"

GbifIdle ==
    /\ gRows = << >>
    /\ gMissing = FALSE
    /\ gLocale = "utf-8"
    /\ gPc = "idle"
    /\ gErrors = "strict"
    /\ gPos = 1
    /\ gOut = << >>
    /\ gAttempts = << >>
    /\ gRaised = << >>
    /\ gMsg = ""

PredictIdle ==
    /\ pOptions = [java |-> "", txtfile |-> "no file", system_java |-> FALSE,
                   maxent |-> FALSE, res_equal |-> TRUE, e |-> FALSE,
                   projectionlayers |-> FALSE, layers |-> "ok", nlayers |-> 1]
    /\ pPhase = "idle"
    /\ pPc = "java"
    /\ pN = 0
    /\ path_to_java = "<unbound>"
    /\ temp_directory = "<unbound>"
    /\ missing_variables = "<unbound>"
    /\ returncode = -1
    /\ pFiles = {}
    /\ pWIND = ""
    /\ pCalls = << >>
    /\ pImported = FALSE
    /\ pHow = ""
    /\ pMsg = ""
    /\ pAtexit = << >>
    /\ pCleanups = 0
    /\ pExit = -1

AttrIdle ==
    /\ aOptions = [rows |-> 1, cols |-> 1, names |-> 1, header |-> <<"soil">>,
                   existing |-> 0]
    /\ aPhase = "idle"
    /\ aPc = "genfromtxt"
    /\ aX = 0
    /\ dimData = << >>
    /\ nmOutput = ""
    /\ aRecodes = << >>
    /\ aFiles = 0
    /\ aLayers = {}
    /\ aHow = ""
    /\ aExit = -1

RulesIdle ==
    /\ rPc = "idle"
    /\ stval = << >>
    /\ sstval = << >>
    /\ cumfreq = << >>
    /\ Dmin = 0
    /\ Dmax = 0
    /\ tmprule = << >>
    /\ rV = 0
    /\ rF = [num |-> 0, den |-> 0]
    /\ rIes = [num |-> 0, den |-> 0]

MessIdle ==
    /\ mOptions = [ref |-> "", proj_region |-> FALSE, proj_env |-> FALSE,
                   flags |-> {}, nvars |-> 1]
    /\ mPhase = "idle"
    /\ mProg = << >>
    /\ mPc = 1
    /\ CLEAN_RAST = << >>
    /\ mLayers = << >>
    /\ mFiles = {}
    /\ mGenerated = {}
    /\ mCreated = {}
    /\ mMaskAtStart = FALSE
    /\ mCalls = << >>
    /\ mMutations = 0
    /\ WIND = ""
    /\ WIND_OVERRIDE = ""
    /\ mPushed = << >>
    /\ mPushes = 0
    /\ mPops = 0
    /\ mPopOk = TRUE
    /\ mAtexit = << >>
    /\ mCleanups = 0
    /\ mDeleteFailed = FALSE
    /\ mExit = -1

SlopeIdle ==
    /\ sPhase = "idle"
    /\ sPc = 1
    /\ sProg = << >>
    /\ rm_rasters = << >>
    /\ rm_vectors = << >>
    /\ sLayers = << >>
    /\ sCreated = {}
    /\ sTempRegion = FALSE
    /\ sCalls = << >>
    /\ sAtexit = << >>
    /\ sCleanups = 0
    /\ sExit = -1

HydroIdle ==
    /\ hOptions = [k |-> FALSE, breaklines |-> FALSE, min_size |-> FALSE,
                   filled_elevation |-> FALSE]
    /\ hPhase = "idle"
    /\ hProg = << >>
    /\ hPc = 1
    /\ RAST_REMOVE = << >>
    /\ hLayers = {}
    /\ hGenerated = {}
    /\ hCreated = {}
    /\ hCalls = << >>
    /\ hFailedLine = 0
    /\ hAtexit = << >>
    /\ hCleanups = 0
    /\ hDeleteFailed = FALSE
    /\ hExit = -1

\* State after gs.parser(): options are parsed, RAST_REMOVE is empty, the
\* mapset holds the user's layers.
InitHydro ==
    /\ script = "r.hydro.flatten"
    /\ OutputsIdle
    /\ VectorIdle
    /\ PipesIdle
    /\ CacheIdle
    /\ SetupIdle
    /\ MasksIdle
    /\ TwoIdle
    /\ FlattenIdle
    /\ BoxplotIdle
    /\ GbifIdle
    /\ MessIdle
    /\ SlopeIdle
    /\ PredictIdle
    /\ AttrIdle
    /\ RulesIdle
    /\ hOptions \in HydroOptions
    /\ hProg = HydroMain(hOptions)
    /\ hPhase = "start"
    /\ hPc = 1
    /\ RAST_REMOVE = << >>
    /\ hLayers = HydroUserLayers
    /\ hGenerated = {}
    /\ hCreated = {}
    /\ hCalls = << >>
    /\ hFailedLine = 0
    /\ hAtexit = << >>
    /\ hCleanups = 0
    /\ hDeleteFailed = FALSE
    /\ hExit = -1

NextHydro ==
    \/ hydro_register_cleanup
    \/ get_name
    \/ hydro_run_command
    \/ hydro_run_command_fails
    \/ hydro_main_returns
    \/ hydro_cleanup
    \/ hydro_exit

SpecHydro == InitHydro /\ [][NextHydro]_vars

(***************************************************************************)
(* r.mess                                                                  *)
(***************************************************************************)
MaxVars == 2

MaxFlags == 1

MessFlags == {"m", "n", "k", "c", "i"}

MessOptions ==
    [ref : {"", "ref_rast", "ref_vect", "ref_region"},
     proj_region : BOOLEAN,
     proj_env : BOOLEAN,
     flags : {f \in SUBSET MessFlags : Cardinality(f) <= MaxFlags},
     nvars : 1..MaxVars]

RECURSIVE Flatten(_)
Flatten(ss) == IF ss = << >> THEN << >> ELSE Head(ss) \o Flatten(Tail(ss))

\* A statement of r.mess.  eff is what the engine call does to the mapset:
\*   "create"        the elements of names exist afterwards
\*   "rename"        element a becomes element b
\*   "remove"        the elements of names are deleted
\*   "region_load"   g.region region=a
\*   "region_extent" g.region raster=a
\*   "region_save"   g.region save=a
\*   "none"          nothing (reads, colour tables, metadata)
MStmt(kind, op, line, eff, a, b, names) ==
    [kind |-> kind, op |-> op, line |-> line, eff |-> eff, a |-> a, b |-> b,
     names |-> names]

MCall(op, line) == MStmt("call", op, line, "none", "", "", {})

MCreate(op, line, out) == MStmt("call", op, line, "create", "", "", {out})

\* gs.fatal behind a condition the model does not compute
MCheck(line) == MStmt("check", "gs.fatal", line, "none", "", "", {})

\* create_unique_name(name): the prefix followed by uuid4().hex.  The uuid
\* of the call made in loop iteration i (0 outside the loops) is uuid<i>.
create_unique_name(name, i) == name \o "_uuid" \o ToString(i)

\* tmpf = create_temporary_name(prefix)
MName(prefix, i, line) ==
    MStmt("name", "create_temporary_name", line, "none", prefix,
          create_unique_name(prefix, i), {})

MessRefEnv(i) == "ref_env" \o ToString(i)

projection_layers(o, i) ==
    IF o.proj_env THEN "proj_env" \o ToString(i) ELSE MessRefEnv(i)

\* ipi[i] = opl + "_" + variable_name[i]
ipi(i) == "output_" \o MessRefEnv(i)

tmprefreg(o) ==
    IF o.ref = "ref_region" THEN "ref_region" ELSE create_unique_name("tmpreg1", 0)

tmpprojreg(o) ==
    IF o.proj_region THEN "proj_region" ELSE create_unique_name("tmpreg2", 0)

\* compute_ies(tmprule, ipi[i], tmpf2, envmin, envmax), lines 202-227
compute_ies_stmts(i) ==
    << MName("tmp6", i, 206),
       MCreate("r.recode", 207, create_unique_name("tmp6", i)),
       MCheck(208),
       MCreate("r.mapcalc", 219, ipi(i)),
       MCall("r.colors", 220) >>

\* one iteration of the loop of recode_reference_vector, lines 300-403
recode_reference_vector_iter(o, m) ==
    << MCall("r.info", 305),
       MCall("v.db.addcolumn", 310),
       MCall("db.execute", 312),
       MCall("v.what.rast", 314),
       MCall("db.select", 326),
       MStmt("push", "use_temp_region", 344, "none", "", "", {}),
       MStmt("call", "g.region", 345, "region_load", tmpprojreg(o), "", {}),
       MName("tmp8", m, 348),
       MCreate("r.mapcalc", 349, create_unique_name("tmp8", m)),
       MCall("r.info", 360),
       MStmt("mkstemp", "mkstemp", 381, "none", "tmprule", "", {}) >>
    \o compute_ies_stmts(m)
    \o << MCall("r.support", 389),
          MStmt("os.remove", "os.remove", 400, "none", "tmprule", "", {}),
          MStmt("pop", "del_temp_region", 403, "none", "", "", {}) >>

\* recode_reference_vector, lines 274-403
recode_reference_vector(o) ==
    << MName("tmp7", 0, 289),
       MCreate("v.extract", 290, create_unique_name("tmp7", 0)),
       MCall("v.db.addtable", 293),
       MCall("db.select", 297),
       MCheck(298) >>
    \o Flatten([m \in 1..o.nvars |-> recode_reference_vector_iter(o, m)])

\* A faulty line 458: the temporary region of the reference statistics is
\* not closed.
del_temp_region_458_missing == MCall("g.region", 458)

\* gs.del_temp_region() after the reference statistics, line 458
del_temp_region_458 == MStmt("pop", "del_temp_region", 458, "none", "", "", {})

\* one iteration of the loop of recode_reference_rasters, lines 425-517
recode_reference_rasters_iter(o, i) ==
    LET tmpfmask == create_unique_name("tmpmsk1", 0)
    IN  << MStmt("push", "use_temp_region", 430, "none", "", "", {}),
           MStmt("call", "g.region", 431, "region_load", tmprefreg(o), "", {}) >>
        \o (IF o.ref = "ref_rast"
            THEN << MStmt("call", "g.rename", 435, "rename", tmpfmask, "MASK", {}) >>
            ELSE << >>)
        \o << MName("tmp4", i, 438),
              MCreate("r.mapcalc", 439, create_unique_name("tmp4", i)),
              MCall("r.stats", 440) >>
        \o (IF o.ref = "ref_rast"
            THEN << MStmt("call", "g.rename", 457, "rename", "MASK", tmpfmask, {}) >>
            ELSE << >>)
        \o << del_temp_region_458,
              MStmt("push", "use_temp_region", 459, "none", "", "", {}),
              MStmt("call", "g.region", 460, "region_load", tmpprojreg(o), "", {}),
              MName("tmp5", i, 463),
              MCreate("r.mapcalc", 464, create_unique_name("tmp5", i)),
              MCall("r.univar", 468),
              MCheck(469),
              MStmt("mkstemp", "mkstemp", 493, "none", "tmprule", "", {}) >>
        \o compute_ies_stmts(i)
        \o << MCall("r.support", 503),
              MStmt("os.remove", "os.remove", 514, "none", "tmprule", "", {}),
              MStmt("pop", "del_temp_region", 517, "none", "", "", {}) >>

\* recode_reference_rasters, lines 406-517
recode_reference_rasters(o) ==
    (IF o.ref = "ref_rast"
     THEN << MStmt("call", "r.mask", 422, "create", "", "", {"MASK"}),
             MName("tmpmsk1", 0, 423),
             MStmt("call", "g.rename", 424, "rename", "MASK",
                   create_unique_name("tmpmsk1", 0), {}) >>
     ELSE << >>)
    \o Flatten([i \in 1..o.nvars |-> recode_reference_rasters_iter(o, i)])

\* The statements of main(options, flags), lines 520-803, in program order.
MessMain(o) ==
    << MStmt("maskcheck", "gs.fatal", 526, "none", "MASK", "", {}) >>
    \o (IF o.ref = "ref_vect" THEN << MCall("v.info", 532), MCheck(532) >>
        ELSE << >>)
    \o (IF o.ref = "ref_rast" THEN << MCall("r.info", 535), MCheck(535) >>
        ELSE << >>)
    \o << MCheck(544) >>
    \o (IF o.proj_env THEN << MCheck(554), MCheck(555) >> ELSE << >>)
    \o << MStmt("mkstemp", "mkstemp", 579, "none", "tmphist", "", {}),
          MName("tmpreg1", 0, 585) >>
    \o (IF o.ref = "ref_region"
        THEN << MStmt("call", "g.region", 587, "region_load", "ref_region", "", {}) >>
        ELSE IF o.ref = "ref_rast"
        THEN << MStmt("call", "g.region", 590, "region_extent", "ref_rast", "", {}),
                MStmt("call", "g.region", 591, "region_save",
                      create_unique_name("tmpreg1", 0), "", {}) >>
        ELSE << MStmt("call", "g.region", 593, "region_save",
                      create_unique_name("tmpreg1", 0), "", {}) >>)
    \o << MName("tmpreg2", 0, 597) >>
    \o (IF o.proj_region
        THEN << MStmt("call", "g.region", 599, "region_load", "proj_region", "", {}) >>
        ELSE << MStmt("call", "g.region", 602, "region_extent",
                      projection_layers(o, 1), "", {}),
                MStmt("call", "g.region", 603, "region_save",
                      create_unique_name("tmpreg2", 0), "", {}) >>)
    \o << MStmt("call", "g.region", 606, "region_load", tmprefreg(o), "", {}) >>
    \o (IF o.ref = "ref_vect" THEN recode_reference_vector(o)
        ELSE recode_reference_rasters(o))
    \o << MStmt("push", "use_temp_region", 634, "none", "", "", {}),
          MStmt("call", "g.region", 635, "region_load", tmpprojreg(o), "", {}),
          MCreate("r.series", 639, "output_MES"),
          MCall("r.colors", 648),
          MCall("r.support", 658) >>
    \o (IF "n" \in o.flags
        THEN << MCreate("r.mapcalc", 671, "output_novel"),
                MCall("r.category", 674),
                MCall("r.support", 684) >>
        ELSE << >>)
    \o (IF "m" \in o.flags
        THEN << MName("tmp9", 0, 697),
                MCreate("r.series", 699, create_unique_name("tmp9", 0)),
                MCreate("r.mapcalc", 708, "output_MoD"),
                MStmt("mkstemp", "mkstemp", 710, "none", "tmpcat", "", {}),
                MCall("r.category", 714),
                MStmt("os.remove", "os.remove", 716, "none", "tmpcat", "", {}),
                MCall("r.support", 719) >>
        ELSE << >>)
    \o (IF "k" \in o.flags
        THEN << MCreate("r.series", 734, "output_SumNeg"),
                MCall("r.colors", 744),
                MCall("r.support", 754) >>
        ELSE << >>)
    \o (IF "c" \in o.flags
        THEN << MName("tmp10", 0, 767),
                MCall("r.info", 769),
                MCreate("r.series", 773, create_unique_name("tmp10", 0)),
                MCreate("r.mapcalc", 783, "output_CountNeg"),
                MCall("r.support", 786) >>
        ELSE << >>)
    \o (IF "i" \in o.flags
        THEN << MStmt("call", "g.remove", 798, "remove", "", "",
                      {ipi(i) : i \in 1..o.nvars}) >>
        ELSE << >>)
    \o << MStmt("pop", "del_temp_region", 803, "none", "", "", {}) >>

MessStmt == mProg[mPc]

MessInMain ==
    /\ script = "r.mess"
    /\ mPhase = "main"
    /\ mPc <= Len(mProg)

\* the region in effect for this process: the temporary region when
\* WIND_OVERRIDE is set, the mapset's current region otherwise
Region == IF WIND_OVERRIDE # "" THEN WIND_OVERRIDE ELSE WIND

\* g.region writes the region in effect
SetRegion(r) ==
    IF WIND_OVERRIDE # "" THEN WIND_OVERRIDE' = r /\ WIND' = WIND
    ELSE WIND' = r /\ WIND_OVERRIDE' = WIND_OVERRIDE

Exists(n) == n \in DOMAIN mLayers

\* the mapset with the elements of names (re)written with data d
WithElements(names, d) ==
    [n \in DOMAIN mLayers \cup names |-> IF n \in names THEN d ELSE mLayers[n]]

WithoutElements(names) == [n \in DOMAIN mLayers \ names |-> mLayers[n]]

\* __main__: atexit.register(cleanup), then main() is entered.
mess_register_cleanup ==
    /\ script = "r.mess"
    /\ mPhase = "start"
    /\ mAtexit' = Append(mAtexit, "cleanup")
    /\ mPhase' = "main"
    /\ UNCHANGED <<NotMess, mProg, mMaskAtStart, mCreated, mOptions, mPc, CLEAN_RAST, mLayers, mFiles,
                   mGenerated, mCalls, mMutations, WIND, WIND_OVERRIDE,
                   mPushed, mPushes, mPops, mPopOk, mCleanups, mDeleteFailed,
                   mExit>>

\* A faulty mess_mask_check: the test for an existing MASK is left out.
mess_mask_check_skipped ==
    /\ MessInMain
    /\ MessStmt.kind = "maskcheck"
    /\ mPc' = mPc + 1
    /\ UNCHANGED <<NotMess, mProg, mMaskAtStart, mCreated, mOptions, mPhase,
                   CLEAN_RAST, mLayers, mFiles, mGenerated, mCalls, mMutations,
                   WIND, WIND_OVERRIDE, mPushed, mPushes, mPops, mPopOk,
                   mAtexit, mCleanups, mDeleteFailed, mExit>>

\* main, lines 523-527: gs.fatal when a raster MASK is found in the mapset
mess_mask_check ==
    /\ MessInMain
    /\ MessStmt.kind = "maskcheck"
    /\ IF Exists("MASK")
       THEN mPhase' = "exiting" /\ mExit' = 1 /\ mPc' = mPc
       ELSE mPhase' = mPhase /\ mExit' = mExit /\ mPc' = mPc + 1
    /\ UNCHANGED <<NotMess, mProg, mMaskAtStart, mCreated, mOptions, CLEAN_RAST, mLayers, mFiles, mGenerated,
                   mCalls, mMutations, WIND, WIND_OVERRIDE, mPushed, mPushes,
                   mPops, mPopOk, mAtexit, mCleanups, mDeleteFailed>>

\* a validity test of main or of a helper that passes
mess_check_passes ==
    /\ MessInMain
    /\ MessStmt.kind = "check"
    /\ mPc' = mPc + 1
    /\ UNCHANGED <<NotMess, mProg, mMaskAtStart, mCreated, mOptions, mPhase, CLEAN_RAST, mLayers, mFiles,
                   mGenerated, mCalls, mMutations, WIND, WIND_OVERRIDE,
                   mPushed, mPushes, mPops, mPopOk, mAtexit, mCleanups,
                   mDeleteFailed, mExit>>

\* a validity test that ends in gs.fatal: sys.exit(1)
mess_check_fatal ==
    /\ MessInMain
    /\ MessStmt.kind = "check"
    /\ mPhase' = "exiting"
    /\ mExit' = 1
    /\ UNCHANGED <<NotMess, mProg, mMaskAtStart, mCreated, mOptions, mPc, CLEAN_RAST, mLayers, mFiles,
                   mGenerated, mCalls, mMutations, WIND, WIND_OVERRIDE,
                   mPushed, mPushes, mPops, mPopOk, mAtexit, mCleanups,
                   mDeleteFailed>>

\* create_temporary_name(prefix), lines 190-199: the unique name is appended
\* to CLEAN_RAST and returned
create_temporary_name ==
    /\ MessInMain
    /\ MessStmt.kind = "name"
    /\ CLEAN_RAST' = Append(CLEAN_RAST, MessStmt.b)
    /\ mGenerated' = mGenerated \cup {MessStmt.b}
    /\ mPc' = mPc + 1
    /\ UNCHANGED <<NotMess, mProg, mMaskAtStart, mCreated, mOptions, mPhase, mLayers, mFiles, mCalls,
                   mMutations, WIND, WIND_OVERRIDE, mPushed, mPushes, mPops,
                   mPopOk, mAtexit, mCleanups, mDeleteFailed, mExit>>

\* tempfile.mkstemp()
mess_mkstemp ==
    /\ MessInMain
    /\ MessStmt.kind = "mkstemp"
    /\ mFiles' = mFiles \cup {MessStmt.a}
    /\ mPc' = mPc + 1
    /\ UNCHANGED <<NotMess, mProg, mMaskAtStart, mCreated, mOptions, mPhase, CLEAN_RAST, mLayers, mGenerated,
                   mCalls, mMutations, WIND, WIND_OVERRIDE, mPushed, mPushes,
                   mPops, mPopOk, mAtexit, mCleanups, mDeleteFailed, mExit>>

\* os.close(fd); os.remove(path)
mess_os_remove ==
    /\ MessInMain
    /\ MessStmt.kind = "os.remove"
    /\ mFiles' = mFiles \ {MessStmt.a}
    /\ mPc' = mPc + 1
    /\ UNCHANGED <<NotMess, mProg, mMaskAtStart, mCreated, mOptions, mPhase, CLEAN_RAST, mLayers, mGenerated,
                   mCalls, mMutations, WIND, WIND_OVERRIDE, mPushed, mPushes,
                   mPops, mPopOk, mAtexit, mCleanups, mDeleteFailed, mExit>>

\* the names the engine call st writes
MessWrites(st) ==
    CASE st.eff = "create"      -> st.names
      [] st.eff = "rename"      -> {st.b}
      [] st.eff = "region_save" -> {st.a}
      [] OTHER                  -> {}

\* whether the engine can carry out the call in the present mapset
MessCallPossible(st) ==
    CASE st.eff = "rename"      -> Exists(st.a) /\ ~Exists(st.b)
      [] st.eff = "region_load" -> Exists(st.a)
      [] st.op = "r.mask"       -> ~Exists("MASK")
      [] OTHER                  -> TRUE

\* An engine call of main() or of a helper that succeeds.
mess_run_command ==
    /\ MessInMain
    /\ MessStmt.kind = "call"
    /\ MessCallPossible(MessStmt)
    /\ mCalls' = Append(mCalls, MessStmt.line)
    /\ mCreated' = mCreated \cup MessWrites(MessStmt)
    /\ mMutations' = IF MessStmt.eff = "none" THEN mMutations ELSE mMutations + 1
    /\ mLayers' =
          CASE MessStmt.eff = "create" -> WithElements(MessStmt.names, "r.mess")
            [] MessStmt.eff = "rename" ->
                  [n \in (DOMAIN mLayers \ {MessStmt.a}) \cup {MessStmt.b} |->
                      IF n = MessStmt.b THEN mLayers[MessStmt.a] ELSE mLayers[n]]
            [] MessStmt.eff = "remove" -> WithoutElements(MessStmt.names)
            [] MessStmt.eff = "region_save" -> WithElements({MessStmt.a}, Region)
            [] OTHER -> mLayers
    /\ CASE MessStmt.eff = "region_load" -> SetRegion(mLayers[MessStmt.a])
         [] MessStmt.eff = "region_extent" -> SetRegion("extent:" \o MessStmt.a)
         [] OTHER -> UNCHANGED <<WIND, WIND_OVERRIDE>>
    /\ mPc' = mPc + 1
    /\ UNCHANGED <<NotMess, mProg, mMaskAtStart, mOptions, mPhase, CLEAN_RAST, mFiles, mGenerated,
                   mPushed, mPushes, mPops, mPopOk, mAtexit, mCleanups,
                   mDeleteFailed, mExit>>

\* An engine call that fails: run_command raises CalledModuleError, nothing
\* catches it and the interpreter leaves main with status 1.  A failed
\* module may leave its output behind.
mess_run_command_fails ==
    /\ MessInMain
    /\ MessStmt.kind = "call"
    /\ mCalls' = Append(mCalls, MessStmt.line)
    /\ mCreated' = mCreated \cup MessWrites(MessStmt)
    /\ mMutations' = IF MessStmt.eff = "none" THEN mMutations ELSE mMutations + 1
    /\ \E partial \in BOOLEAN :
          mLayers' = IF partial /\ MessStmt.eff = "create" /\ MessStmt.op # "r.mask"
                     THEN WithElements(MessStmt.names, "r.mess") ELSE mLayers
    /\ mPhase' = "exiting"
    /\ mExit' = 1
    /\ UNCHANGED <<NotMess, mProg, mMaskAtStart, mOptions, mPc, CLEAN_RAST, mFiles, mGenerated,
                   WIND, WIND_OVERRIDE, mPushed, mPushes, mPops, mPopOk,
                   mAtexit, mCleanups, mDeleteFailed>>

\* gs.use_temp_region(): the region in effect is copied to a temporary
\* region, WIND_OVERRIDE names it, and del_temp_region is registered with
\* atexit.
use_temp_region ==
    /\ MessInMain
    /\ MessStmt.kind = "push"
    /\ WIND_OVERRIDE' = Region
    /\ mPushed' = Append(mPushed, Region)
    /\ mPushes' = mPushes + 1
    /\ mAtexit' = Append(mAtexit, "del_temp_region")
    /\ mPc' = mPc + 1
    /\ UNCHANGED <<NotMess, mProg, mMaskAtStart, mCreated, mOptions, mPhase, CLEAN_RAST, mLayers, mFiles,
                   mGenerated, mCalls, mMutations, WIND, mPops, mPopOk,
                   mCleanups, mDeleteFailed, mExit>>

\* The effect of gs.del_temp_region(): WIND_OVERRIDE is unset and the
\* temporary region removed; nothing happens when WIND_OVERRIDE is not set.
DelTempRegion ==
    IF WIND_OVERRIDE # ""
    THEN /\ WIND_OVERRIDE' = ""
         /\ mPops' = mPops + 1
         /\ mPopOk' = (mPopOk /\ mPushed # << >> /\ WIND = mPushed[Len(mPushed)])
         /\ mPushed' = IF mPushed = << >> THEN mPushed
                       ELSE SubSeq(mPushed, 1, Len(mPushed) - 1)
    ELSE UNCHANGED <<WIND_OVERRIDE, mPops, mPopOk, mPushed>>

\* gs.del_temp_region() called by the script
del_temp_region ==
    /\ MessInMain
    /\ MessStmt.kind = "pop"
    /\ DelTempRegion
    /\ mPc' = mPc + 1
    /\ UNCHANGED <<NotMess, mProg, mMaskAtStart, mCreated, mOptions, mPhase, CLEAN_RAST, mLayers, mFiles,
                   mGenerated, mCalls, mMutations, WIND, mPushes, mAtexit,
                   mCleanups, mDeleteFailed, mExit>>

\* main() returns None: sys.exit(None) ends the process with status 0.
mess_main_returns ==
    /\ script = "r.mess"
    /\ mPhase = "main"
    /\ mPc = Len(mProg) + 1
    /\ mPhase' = "exiting"
    /\ mExit' = 0
    /\ UNCHANGED <<NotMess, mProg, mMaskAtStart, mCreated, mOptions, mPc, CLEAN_RAST, mLayers, mFiles,
                   mGenerated, mCalls, mMutations, WIND, WIND_OVERRIDE,
                   mPushed, mPushes, mPops, mPopOk, mAtexit, mCleanups,
                   mDeleteFailed>>

\* atexit runs the handlers last registered first: a del_temp_region
\* registered by use_temp_region
mess_atexit_del_temp_region ==
    /\ script = "r.mess"
    /\ mPhase = "exiting"
    /\ mAtexit # << >>
    /\ mAtexit[Len(mAtexit)] = "del_temp_region"
    /\ mAtexit' = SubSeq(mAtexit, 1, Len(mAtexit) - 1)
    /\ DelTempRegion
    /\ UNCHANGED <<NotMess, mProg, mMaskAtStart, mCreated, mOptions, mPhase, mPc, CLEAN_RAST, mLayers, mFiles,
                   mGenerated, mCalls, mMutations, WIND, mPushes, mCleanups,
                   mDeleteFailed, mExit>>

Reverse(s) == [i \in 1..Len(s) |-> s[Len(s) + 1 - i]]

\* A faulty MessCleanupDeleted: the loop of cleanup() ends after its first
\* g.remove.
MessCleanupDeleted_first_only(stuck) ==
    IF CLEAN_RAST = << >> \/ CLEAN_RAST[Len(CLEAN_RAST)] \in stuck THEN {}
    ELSE {CLEAN_RAST[Len(CLEAN_RAST)]}

\* The elements the loop of cleanup() deletes when g.remove fails on the
\* elements of stuck: run_command raises at the first name it fails on, so
\* the names after it in the reversed list are not visited.
MessCleanupDeleted(stuck) ==
    LET cleanrast == Reverse(CLEAN_RAST)
        failing == {k \in 1..Len(cleanrast) : cleanrast[k] \in stuck}
    IN  {cleanrast[k] : k \in {j \in 1..Len(cleanrast) :
                                  \A f \in failing : j < f}}

\* cleanup(), lines 163-167, run by atexit: g.remove -f type=all of every
\* name of CLEAN_RAST, last appended first.
mess_cleanup ==
    /\ script = "r.mess"
    /\ mPhase = "exiting"
    /\ mAtexit # << >>
    /\ mAtexit[Len(mAtexit)] = "cleanup"
    /\ mAtexit' = SubSeq(mAtexit, 1, Len(mAtexit) - 1)
    /\ mCleanups' = mCleanups + 1
    /\ \E stuck \in {{}} \cup {{n} : n \in DOMAIN mLayers \cap Range(CLEAN_RAST)} :
          /\ mLayers' = WithoutElements(MessCleanupDeleted(stuck))
          /\ mDeleteFailed' = (mDeleteFailed \/ stuck # {})
    /\ UNCHANGED <<NotMess, mProg, mMaskAtStart, mCreated, mOptions, mPhase, mPc, CLEAN_RAST, mFiles,
                   mGenerated, mCalls, mMutations, WIND, WIND_OVERRIDE,
                   mPushed, mPushes, mPops, mPopOk, mExit>>

\* Every atexit handler has run: the process is gone.
mess_exit ==
    /\ script = "r.mess"
    /\ mPhase = "exiting"
    /\ mAtexit = << >>
    /\ mPhase' = "exited"
    /\ UNCHANGED <<NotMess, mProg, mMaskAtStart, mCreated, mOptions, mPc, CLEAN_RAST, mLayers, mFiles,
                   mGenerated, mCalls, mMutations, WIND, WIND_OVERRIDE,
                   mPushed, mPushes, mPops, mPopOk, mAtexit, mCleanups,
                   mDeleteFailed, mExit>>

\* The mapset before r.mess starts: the user's rasters, vector and saved
\* regions, and a raster MASK when mask is TRUE.
MessUserLayers(o, mask) ==
    LET rasters == {MessRefEnv(i) : i \in 1..o.nvars}
                   \cup {projection_layers(o, i) : i \in 1..o.nvars}
                   \cup {"ref_rast", "ref_vect"}
                   \cup (IF mask THEN {"MASK"} ELSE {})
        regions == {"ref_region", "proj_region"}
    IN  [n \in rasters \cup regions |->
            IF n \in regions THEN "region:" \o n ELSE "user"]

InitMess ==
    /\ script = "r.mess"
    /\ OutputsIdle
    /\ VectorIdle
    /\ PipesIdle
    /\ CacheIdle
    /\ SetupIdle
    /\ MasksIdle
    /\ TwoIdle
    /\ FlattenIdle
    /\ BoxplotIdle
    /\ GbifIdle
    /\ HydroIdle
    /\ SlopeIdle
    /\ PredictIdle
    /\ AttrIdle
    /\ RulesIdle
    /\ mOptions \in MessOptions
    /\ mProg = MessMain(mOptions)
    /\ mPhase = "start"
    /\ mPc = 1
    /\ CLEAN_RAST = << >>
    /\ mMaskAtStart \in BOOLEAN
    /\ mLayers = MessUserLayers(mOptions, mMaskAtStart)
    /\ mFiles = {}
    /\ mGenerated = {}
    /\ mCreated = {}
    /\ mCalls = << >>
    /\ mMutations = 0
    /\ WIND = "region:user"
    /\ WIND_OVERRIDE = ""
    /\ mPushed = << >>
    /\ mPushes = 0
    /\ mPops = 0
    /\ mPopOk = TRUE
    /\ mAtexit = << >>
    /\ mCleanups = 0
    /\ mDeleteFailed = FALSE
    /\ mExit = -1

NextMess ==
    \/ mess_register_cleanup
    \/ mess_mask_check
    \/ mess_check_passes
    \/ mess_check_fatal
    \/ create_temporary_name
    \/ mess_mkstemp
    \/ mess_os_remove
    \/ mess_run_command
    \/ mess_run_command_fails
    \/ use_temp_region
    \/ del_temp_region
    \/ mess_main_returns
    \/ mess_atexit_del_temp_region
    \/ mess_cleanup
    \/ mess_exit

SpecMess == InitMess /\ [][NextMess]_vars

(***************************************************************************)
(* r.slopeunits.metrics                                                    *)
(***************************************************************************)
R(n) == "raster:" \o n

V(n) == "vector:" \o n

\* A statement of r.slopeunits.metrics; names are the elements the call
\* writes ("create"), deletes ("remove") or, for "maskrm", deletes when
\* gs.find_file finds them.
SStmt(kind, op, line, eff, names) ==
    [kind |-> kind, op |-> op, line |-> line, eff |-> eff, names |-> names]

SCall(op, line) == SStmt("call", op, line, "none", {})

SCreate(op, line, out) == SStmt("call", op, line, "create", {out})

SRemove(line, names) == SStmt("call", "g.remove", line, "remove", names)

\* if gs.find_file("MASK")["file"]: g.remove type=raster name=MASK
SMaskRm(line) == SStmt("maskrm", "g.remove", line, "remove", {R("MASK")})

\* the names of the g.remove calls of lines 424-433
SlopeWorkingRasters ==
    {R(n) : n \in {"a_all", "a_allrad", "a_i", "a_irad", "areamap", "aspect",
                   "base", "basin_chk", "cos", "den", "num", "numero", "sin",
                   "sumcos", "sumcos_all", "sumsin", "sumsin_all", "v_i",
                   "su_segm"}}

SlopeWorkingVectors == {V("su_segm"), V("su_segm_edges")}

\* The statements of calculate_metrics (lines 104-440) and of main
\* (lines 443-478), in program order.
SlopeMain ==
    << SStmt("push", "use_temp_region", 112, "none", {}),
       SCall("g.region", 113),
       SMaskRm(115),
       SCreate("r.mask", 116, R("MASK")),
       SRemove(117, {V("su_segm")}),
       SCreate("g.copy", 118, V("su_segm")),
       SCall("v.db.dropcolumn", 119),
       SCall("v.db.addcolumn", 120),
       SCall("v.to.db", 121),
       SCall("db.execute", 124),
       SCreate("v.clean", 125, V("su_ok")),
       SStmt("call", "g.rename", 134, "rename", {V("su_ok"), V("su_segm")}),
       SMaskRm(148),
       SCreate("r.mask", 149, R("MASK")),
       SCreate("v.to.rast", 150, R("su_segm")),
       SCreate("r.slope.aspect", 161, R("aspect")),
       SCall("r.colors", 162),
       SCreate("r.mapcalc", 165, R("cos")),
       SCreate("r.mapcalc", 167, R("sin")),
       SCreate("r.stats.zonal", 170, R("numero")),
       SCreate("r.stats.zonal", 179, R("sumcos")),
       SCreate("r.stats.zonal", 188, R("sumsin")),
       SCreate("r.mapcalc", 196, R("v_i")),
       SCreate("r.mapcalc", 203, R("base")),
       SCreate("r.stats.zonal", 204, R("sumcos_all")),
       SCreate("r.stats.zonal", 212, R("sumsin_all")),
       SRemove(222, {V("su_segm_edges")}),
       SCreate("v.category", 223, V("su_segm_edges")),
       SCall("v.db.addtable", 232),
       SCall("v.to.db", 238),
       SCall("v.to.db", 247),
       SCreate("r.mapcalc", 258, R("a_i")),
       SCreate("r.mapcalc", 259, R("a_all")),
       SCreate("r.mapcalc", 266, R("a_irad")),
       SCreate("r.mapcalc", 267, R("a_allrad")),
       SCall("v.rast.stats", 272),
       SCall("v.db.renamecolumn", 279),
       SCall("v.rast.stats", 282),
       SCall("v.db.renamecolumn", 289),
       SCall("v.rast.stats", 294),
       SCall("v.db.renamecolumn", 301),
       SCall("db.execute", 304),
       SCreate("v.extract", 311, V("su_segm")),
       SCall("v.db.addtable", 318),
       SCreate("r.mapcalc", 322, R("num")),
       SCreate("r.mapcalc", 323, R("den")),
       SCall("r.univar", 324),
       SCall("r.univar", 330),
       SStmt("compute", "float division", 336, "none", {}),
       SCall("v.db.addcolumn", 344),
       SCall("db.execute", 353),
       SCall("db.execute", 360),
       SCall("db.execute", 367),
       SCall("db.execute", 374),
       SCall("db.execute", 381),
       SCall("db.execute", 388),
       SCall("db.execute", 395),
       SCall("db.execute", 402),
       SCall("db.select", 407),
       SCall("db.select", 412),
       SStmt("compute", "float division", 421, "none", {}),
       SRemove(424, SlopeWorkingRasters),
       SRemove(433, SlopeWorkingVectors),
       SMaskRm(435),
       SStmt("pop", "del_temp_region", 437, "none", {}),
       SStmt("compute", "write outfile", 467, "none", {}) >>

SlopeStmt == sProg[sPc]

SlopeInMain ==
    /\ script = "r.slopeunits.metrics"
    /\ sPhase = "main"
    /\ sPc <= Len(sProg)

SlopeWith(names) ==
    [n \in DOMAIN sLayers \cup names |->
        IF n \in names THEN "r.slopeunits.metrics" ELSE sLayers[n]]

SlopeWithout(names) == [n \in DOMAIN sLayers \ names |-> sLayers[n]]

SlopeTracked == Range(rm_rasters) \cup Range(rm_vectors)

\* __main__, lines 481-484: gs.parser(), atexit.register(cleanup), main()
slope_register_cleanup ==
    /\ script = "r.slopeunits.metrics"
    /\ sPhase = "start"
    /\ sAtexit' = Append(sAtexit, "cleanup")
    /\ sPhase' = "main"
    /\ UNCHANGED <<NotSlope, sPc, sProg, rm_rasters, rm_vectors, sLayers,
                   sCreated, sTempRegion, sCalls, sCleanups, sExit>>

\* the mapset after the engine call st has done its work
SlopeEffect(st) ==
    CASE st.eff = "create" -> SlopeWith(st.names)
      [] st.eff = "remove" -> SlopeWithout(st.names)
      [] st.eff = "rename" ->
            [n \in (DOMAIN sLayers \ {V("su_ok")}) \cup {V("su_segm")} |->
                IF n = V("su_segm") THEN "r.slopeunits.metrics" ELSE sLayers[n]]
      [] OTHER -> sLayers

\* An engine call that succeeds.  Neither calculate_metrics nor main appends
\* to rm_rasters or rm_vectors.
slope_run_command ==
    /\ SlopeInMain
    /\ SlopeStmt.kind \in {"call", "maskrm"}
    /\ SlopeStmt.kind = "maskrm" => R("MASK") \in DOMAIN sLayers
    /\ sCalls' = Append(sCalls, SlopeStmt.line)
    /\ sLayers' = SlopeEffect(SlopeStmt)
    /\ sCreated' = IF SlopeStmt.eff = "create"
                   THEN sCreated \cup SlopeStmt.names ELSE sCreated
    /\ sPc' = sPc + 1
    /\ UNCHANGED <<NotSlope, sPhase, sProg, rm_rasters, rm_vectors,
                   sTempRegion, sAtexit, sCleanups, sExit>>

\* if gs.find_file("MASK")["file"] is false: the g.remove is skipped
slope_no_mask ==
    /\ SlopeInMain
    /\ SlopeStmt.kind = "maskrm"
    /\ R("MASK") \notin DOMAIN sLayers
    /\ sPc' = sPc + 1
    /\ UNCHANGED <<NotSlope, sPhase, sProg, rm_rasters, rm_vectors, sLayers,
                   sCreated, sTempRegion, sCalls, sAtexit, sCleanups, sExit>>

\* An engine call that fails: run_command raises CalledModuleError and the
\* interpreter ends with status 1.  A failed module may leave its output.
slope_run_command_fails ==
    /\ SlopeInMain
    /\ SlopeStmt.kind \in {"call", "maskrm"}
    /\ SlopeStmt.kind = "maskrm" => R("MASK") \in DOMAIN sLayers
    /\ sCalls' = Append(sCalls, SlopeStmt.line)
    /\ sCreated' = IF SlopeStmt.eff = "create"
                   THEN sCreated \cup SlopeStmt.names ELSE sCreated
    /\ \E partial \in BOOLEAN :
          sLayers' = IF partial /\ SlopeStmt.eff = "create"
                     THEN SlopeWith(SlopeStmt.names) ELSE sLayers
    /\ sPhase' = "exiting"
    /\ sExit' = 1
    /\ UNCHANGED <<NotSlope, sPc, sProg, rm_rasters, rm_vectors, sTempRegion,
                   sAtexit, sCleanups>>

\* A Python statement between the engine calls (a float division, the
\* write of the output file): it works or it raises.
slope_compute ==
    /\ SlopeInMain
    /\ SlopeStmt.kind = "compute"
    /\ \E raises \in BOOLEAN :
          IF raises
          THEN sPhase' = "exiting" /\ sExit' = 1 /\ sPc' = sPc
          ELSE sPhase' = sPhase /\ sExit' = sExit /\ sPc' = sPc + 1
    /\ UNCHANGED <<NotSlope, sProg, rm_rasters, rm_vectors, sLayers, sCreated,
                   sTempRegion, sCalls, sAtexit, sCleanups>>

\* gs.use_temp_region(), line 112
slope_use_temp_region ==
    /\ SlopeInMain
    /\ SlopeStmt.kind = "push"
    /\ sTempRegion' = TRUE
    /\ sAtexit' = Append(sAtexit, "del_temp_region")
    /\ sPc' = sPc + 1
    /\ UNCHANGED <<NotSlope, sPhase, sProg, rm_rasters, rm_vectors, sLayers,
                   sCreated, sCalls, sCleanups, sExit>>

\* gs.del_temp_region(), line 437
slope_del_temp_region ==
    /\ SlopeInMain
    /\ SlopeStmt.kind = "pop"
    /\ sTempRegion' = FALSE
    /\ sPc' = sPc + 1
    /\ UNCHANGED <<NotSlope, sPhase, sProg, rm_rasters, rm_vectors, sLayers,
                   sCreated, sCalls, sAtexit, sCleanups, sExit>>

\* main() returns; the script ends without sys.exit: status 0
slope_main_returns ==
    /\ script = "r.slopeunits.metrics"
    /\ sPhase = "main"
    /\ sPc = Len(sProg) + 1
    /\ sPhase' = "exiting"
    /\ sExit' = 0
    /\ UNCHANGED <<NotSlope, sPc, sProg, rm_rasters, rm_vectors, sLayers,
                   sCreated, sTempRegion, sCalls, sAtexit, sCleanups>>

\* the del_temp_region that use_temp_region registered with atexit
slope_atexit_del_temp_region ==
    /\ script = "r.slopeunits.metrics"
    /\ sPhase = "exiting"
    /\ sAtexit # << >>
    /\ sAtexit[Len(sAtexit)] = "del_temp_region"
    /\ sAtexit' = SubSeq(sAtexit, 1, Len(sAtexit) - 1)
    /\ sTempRegion' = FALSE
    /\ UNCHANGED <<NotSlope, sPhase, sPc, sProg, rm_rasters, rm_vectors,
                   sLayers, sCreated, sCalls, sCleanups, sExit>>

\* cleanup(), lines 88-101: g.remove of every existing name of rm_rasters
\* and rm_vectors, then of MASK when there is one.
slope_cleanup ==
    /\ script = "r.slopeunits.metrics"
    /\ sPhase = "exiting"
    /\ sAtexit # << >>
    /\ sAtexit[Len(sAtexit)] = "cleanup"
    /\ sAtexit' = SubSeq(sAtexit, 1, Len(sAtexit) - 1)
    /\ sCleanups' = sCleanups + 1
    /\ sLayers' = SlopeWithout({R(n) : n \in Range(rm_rasters)}
                               \cup {V(n) : n \in Range(rm_vectors)}
                               \cup {R("MASK")})
    /\ UNCHANGED <<NotSlope, sPhase, sPc, sProg, rm_rasters, rm_vectors,
                   sCreated, sTempRegion, sCalls, sExit>>

\* Every atexit handler has run: the process is gone.
slope_exit ==
    /\ script = "r.slopeunits.metrics"
    /\ sPhase = "exiting"
    /\ sAtexit = << >>
    /\ sPhase' = "exited"
    /\ UNCHANGED <<NotSlope, sPc, sProg, rm_rasters, rm_vectors, sLayers,
                   sCreated, sTempRegion, sCalls, sAtexit, sCleanups, sExit>>

\* The mapset before the run: basin, demmap and slumapclean, and a raster
\* MASK of the user when mask is TRUE.
SlopeUserLayers(mask) ==
    [n \in {V("basin"), R("dem"), V("slumapclean")}
           \cup (IF mask THEN {R("MASK")} ELSE {}) |-> "user"]

InitSlope ==
    /\ script = "r.slopeunits.metrics"
    /\ OutputsIdle
    /\ VectorIdle
    /\ PipesIdle
    /\ CacheIdle
    /\ SetupIdle
    /\ MasksIdle
    /\ TwoIdle
    /\ FlattenIdle
    /\ BoxplotIdle
    /\ GbifIdle
    /\ HydroIdle
    /\ MessIdle
    /\ PredictIdle
    /\ AttrIdle
    /\ RulesIdle
    /\ sPhase = "start"
    /\ sPc = 1
    /\ sProg = SlopeMain
    /\ rm_rasters = << >>
    /\ rm_vectors = << >>
    /\ \E mask \in BOOLEAN : sLayers = SlopeUserLayers(mask)
    /\ sCreated = {}
    /\ sTempRegion = FALSE
    /\ sCalls = << >>
    /\ sAtexit = << >>
    /\ sCleanups = 0
    /\ sExit = -1

NextSlope ==
    \/ slope_register_cleanup
    \/ slope_run_command
    \/ slope_no_mask
    \/ slope_run_command_fails
    \/ slope_compute
    \/ slope_use_temp_region
    \/ slope_del_temp_region
    \/ slope_main_returns
    \/ slope_atexit_del_temp_region
    \/ slope_cleanup
    \/ slope_exit

SpecSlope == InitSlope /\ [][NextSlope]_vars

(***************************************************************************)
(* r.maxent.predict                                                        *)
(***************************************************************************)
MaxLayers == 2

\* what the addon directory holds for r_maxent_path_to_java.txt
TxtFiles ==
    {"no GRASS_ADDON_BASE", "no file", "unreadable", "empty", "no such path",
     "not functional", "functional"}

\* check_java_txtfile(), lines 230-264: the path read from the text file
\* ("jav"), or None ("") when GRASS_ADDON_BASE is not set, the file does not
\* exist, cannot be read or is empty, or the path does not exist or is not a
\* functional java
check_java_txtfile(txtfile) ==
    IF txtfile = "no GRASS_ADDON_BASE" THEN ""
    ELSE IF txtfile = "no file" THEN ""
    ELSE IF txtfile = "unreadable" THEN ""
    ELSE IF txtfile = "empty" THEN ""
    ELSE IF txtfile \in {"no such path", "not functional"} THEN ""
    ELSE "jav"

\* what gs.parser() returns and what the checks of main will find:
\* java: the java option ("" when not given) and what the path turns out to
\* be; txtfile: what r_maxent_path_to_java.txt holds; system_java:
\* java_functional("java"); maxent: the maxent.jar file is found;
\* res_equal: nsres = ewres; layers: what check_layers reports.
PredictOptions ==
    [java : {"", "functional", "not a file", "not functional"},
     txtfile : TxtFiles,
     system_java : BOOLEAN,
     maxent : BOOLEAN,
     res_equal : BOOLEAN,
     e : BOOLEAN,
     projectionlayers : BOOLEAN,
     layers : {"ok", "missing", "double"},
     nlayers : 1..MaxLayers]

PredictInMain == script = "r.maxent.predict" /\ pPhase = "main"

\* gs.fatal(msg): the message is printed and the process exits with status 1
PredictFatal(msg) ==
    /\ pHow' = "fatal"
    /\ pMsg' = msg
    /\ pExit' = 1
    /\ pPhase' = "exiting"

\* an exception nobody catches: traceback, exit status 1
PredictRaise(exception) ==
    /\ pHow' = exception
    /\ pMsg' = ""
    /\ pExit' = 1
    /\ pPhase' = "exiting"

PredictGoesOn == UNCHANGED <<pHow, pMsg, pExit, pPhase>>

\* A faulty predict_register_cleanup: cleanup is registered twice.
predict_register_cleanup_twice ==
    /\ script = "r.maxent.predict"
    /\ pPhase = "start"
    /\ pAtexit' = pAtexit \o <<"cleanup", "cleanup">>
    /\ pPhase' = "main"
    /\ UNCHANGED <<NotPredict, pOptions, pPc, pN, path_to_java, temp_directory,
                   missing_variables, returncode, pFiles, pWIND, pCalls,
                   pImported, pHow, pMsg, pCleanups, pExit>>

\* __main__, line 486: atexit.register(cleanup)
predict_register_cleanup ==
    /\ script = "r.maxent.predict"
    /\ pPhase = "start"
    /\ pAtexit' = Append(pAtexit, "cleanup")
    /\ pPhase' = "main"
    /\ UNCHANGED <<NotPredict, pOptions, pPc, pN, path_to_java, temp_directory,
                   missing_variables, returncode, pFiles, pWIND, pCalls,
                   pImported, pHow, pMsg, pCleanups, pExit>>

\* A faulty predict_check_java: the text file is consulted before the java
\* option.
predict_check_java_txtfile_first ==
    /\ PredictInMain
    /\ pPc = "java"
    /\ IF check_java_txtfile(pOptions.txtfile) # ""
       THEN /\ path_to_java' = check_java_txtfile(pOptions.txtfile)
            /\ pPc' = "maxent"
            /\ PredictGoesOn
       ELSE IF pOptions.java # ""
       THEN CASE pOptions.java = "not a file" ->
                    /\ PredictFatal("Provided path to java executable cannot be found.")
                    /\ UNCHANGED <<path_to_java, pPc>>
              [] pOptions.java = "not functional" ->
                    /\ PredictFatal("Problem with provided java executable.")
                    /\ UNCHANGED <<path_to_java, pPc>>
              [] OTHER ->
                    /\ path_to_java' = "options[java]"
                    /\ pPc' = "maxent"
                    /\ PredictGoesOn
       ELSE IF pOptions.system_java
       THEN /\ path_to_java' = "java"
            /\ pPc' = "maxent"
            /\ PredictGoesOn
       ELSE /\ pPc' = "maxent"
            /\ PredictGoesOn
            /\ UNCHANGED path_to_java
    /\ UNCHANGED <<NotPredict, pOptions, pN, temp_directory, missing_variables,
                   returncode, pFiles, pWIND, pCalls, pImported, pAtexit,
                   pCleanups>>

\* main, lines 280-302: choose the java executable
predict_check_java ==
    /\ PredictInMain
    /\ pPc = "java"
    /\ IF pOptions.java # ""
       THEN CASE pOptions.java = "not a file" ->
                    /\ PredictFatal("Provided path to java executable cannot be found.")
                    /\ UNCHANGED <<path_to_java, pPc>>
              [] pOptions.java = "not functional" ->
                    /\ PredictFatal("Problem with provided java executable.")
                    /\ UNCHANGED <<path_to_java, pPc>>
              [] OTHER ->
                    /\ path_to_java' = "options[java]"
                    /\ pPc' = "maxent"
                    /\ PredictGoesOn
       ELSE IF check_java_txtfile(pOptions.txtfile) # ""
       THEN /\ path_to_java' = check_java_txtfile(pOptions.txtfile)
            /\ pPc' = "maxent"
            /\ PredictGoesOn
       ELSE IF pOptions.system_java
       THEN /\ path_to_java' = "java"
            /\ pPc' = "maxent"
            /\ PredictGoesOn
       ELSE \* gs.warning only: path_to_java stays unassigned
            /\ pPc' = "maxent"
            /\ PredictGoesOn
            /\ UNCHANGED path_to_java
    /\ UNCHANGED <<NotPredict, pOptions, pN, temp_directory, missing_variables,
                   returncode, pFiles, pWIND, pCalls, pImported, pAtexit,
                   pCleanups>>

\* main, lines 306-320: the maxent.jar file must exist
predict_check_maxent ==
    /\ PredictInMain
    /\ pPc = "maxent"
    /\ IF pOptions.maxent
       THEN pPc' = "region" /\ PredictGoesOn
       ELSE PredictFatal("maxent.jar not found") /\ UNCHANGED pPc
    /\ UNCHANGED <<NotPredict, pOptions, pN, path_to_java, temp_directory,
                   missing_variables, returncode, pFiles, pWIND, pCalls,
                   pImported, pAtexit, pCleanups>>

\* main, lines 324-341: nsres and ewres must be equal; with -e the region is
\* resampled with g.region -a res=, which writes the mapset's region
predict_check_resolution ==
    /\ PredictInMain
    /\ pPc = "region"
    /\ IF pOptions.res_equal
       THEN /\ pPc' = "tempdir"
            /\ PredictGoesOn
            /\ UNCHANGED <<pWIND, pCalls>>
       ELSE IF pOptions.e
       THEN /\ pCalls' = Append(pCalls, 330)
            /\ pWIND' = "region:user, res=min(nsres, ewres)"
            /\ pPc' = "tempdir"
            /\ PredictGoesOn
       ELSE /\ PredictFatal("The ns and ew resolution of the computational region do not match.")
            /\ UNCHANGED <<pPc, pWIND, pCalls>>
    /\ UNCHANGED <<NotPredict, pOptions, pN, path_to_java, temp_directory,
                   missing_variables, returncode, pFiles, pImported, pAtexit,
                   pCleanups>>

\* main, lines 346-352: the folder with the layers is given or made
predict_tempdir ==
    /\ PredictInMain
    /\ pPc = "tempdir"
    /\ IF pOptions.projectionlayers
       THEN /\ temp_directory' = "options[projectionlayers]"
            /\ pPc' = "command"
            /\ UNCHANGED pFiles
       ELSE /\ temp_directory' = "gs.tempdir()"
            /\ pFiles' = pFiles \cup {"gs.tempdir()"}
            /\ pPc' = "layers"
    /\ UNCHANGED <<NotPredict, pOptions, pPhase, pN, path_to_java,
                   missing_variables, returncode, pWIND, pCalls, pImported,
                   pHow, pMsg, pAtexit, pCleanups, pExit>>

\* main, lines 354-384: check_layers
predict_check_layers ==
    /\ PredictInMain
    /\ pPc = "layers"
    /\ CASE pOptions.layers = "missing" ->
              PredictFatal("The layer(s) do not exist in the accessible mapsets")
              /\ UNCHANGED pPc
         [] pOptions.layers = "double" ->
              PredictFatal("There are layers with the name in multiple accessible mapsets")
              /\ UNCHANGED pPc
         [] OTHER -> pPc' = "export" /\ PredictGoesOn
    /\ UNCHANGED <<NotPredict, pOptions, pN, path_to_java, temp_directory,
                   missing_variables, returncode, pFiles, pWIND, pCalls,
                   pImported, pAtexit, pCleanups>>

\* main, lines 390-409: one iteration of the export loop (r.out.gdal)
predict_export ==
    /\ PredictInMain
    /\ pPc = "export"
    /\ pN < pOptions.nlayers
    /\ pCalls' = Append(pCalls, 398)
    /\ pFiles' = pFiles \cup {"gs.tempdir()/file_names[" \o ToString(pN) \o "].asc"}
    /\ pN' = pN + 1
    /\ UNCHANGED <<NotPredict, pOptions, pPhase, pPc, path_to_java,
                   temp_directory, missing_variables, returncode, pWIND,
                   pImported, pHow, pMsg, pAtexit, pCleanups, pExit>>

\* the export loop is finished
predict_export_done ==
    /\ PredictInMain
    /\ pPc = "export"
    /\ pN = pOptions.nlayers
    /\ pPc' = "command"
    /\ UNCHANGED <<NotPredict, pOptions, pPhase, pN, path_to_java,
                   temp_directory, missing_variables, returncode, pFiles,
                   pWIND, pCalls, pImported, pHow, pMsg, pAtexit, pCleanups,
                   pExit>>

\* main, lines 415-430: the command line; reading path_to_java when the
\* java selection assigned nothing raises UnboundLocalError
predict_build_command ==
    /\ PredictInMain
    /\ pPc = "command"
    /\ IF path_to_java = "<unbound>"
       THEN PredictRaise("UnboundLocalError") /\ UNCHANGED pPc
       ELSE pPc' = "popen" /\ PredictGoesOn
    /\ UNCHANGED <<NotPredict, pOptions, pN, path_to_java, temp_directory,
                   missing_variables, returncode, pFiles, pWIND, pCalls,
                   pImported, pAtexit, pCleanups>>

\* main, lines 435-453: Maxent runs; its exit code, whether a line of its
\* stderr holds java.util.NoSuchElementException and whether it wrote the
\* output file are for the subprocess to decide.  missing_variables is
\* assigned only inside the stderr loop, when the signature is seen.
predict_run_maxent ==
    /\ PredictInMain
    /\ pPc = "popen"
    /\ \E rc \in {0, 1}, signature \in BOOLEAN, written \in BOOLEAN :
          /\ returncode' = rc
          /\ missing_variables' =
                IF signature
                THEN "Check variable names and path + names of input files"
                ELSE missing_variables
          /\ pFiles' = IF written THEN pFiles \cup {"temp_file"} ELSE pFiles
    /\ pPc' = "returncode"
    /\ UNCHANGED <<NotPredict, pOptions, pPhase, pN, path_to_java,
                   temp_directory, pWIND, pCalls, pImported, pHow, pMsg,
                   pAtexit, pCleanups, pExit>>

\* main, lines 454-458: the return code; missing_variables is read when the
\* code is not 0, and that raises UnboundLocalError when it was never assigned
predict_check_returncode ==
    /\ PredictInMain
    /\ pPc = "returncode"
    /\ IF returncode # 0
       THEN /\ IF missing_variables = "<unbound>"
               THEN PredictRaise("UnboundLocalError")
               ELSE IF missing_variables # ""
               THEN PredictFatal(missing_variables)
               ELSE PredictFatal("Maxent terminated with an error")
            /\ UNCHANGED pPc
       ELSE pPc' = "outfile" /\ PredictGoesOn
    /\ UNCHANGED <<NotPredict, pOptions, pN, path_to_java, temp_directory,
                   missing_variables, returncode, pFiles, pWIND, pCalls,
                   pImported, pAtexit, pCleanups>>

\* main, lines 462-468: the output file must exist
predict_check_outfile ==
    /\ PredictInMain
    /\ pPc = "outfile"
    /\ IF "temp_file" \notin pFiles
       THEN PredictFatal("Maxent did not create an output raster for import in GRASS.")
            /\ UNCHANGED pPc
       ELSE pPc' = "import" /\ PredictGoesOn
    /\ UNCHANGED <<NotPredict, pOptions, pN, path_to_java, temp_directory,
                   missing_variables, returncode, pFiles, pWIND, pCalls,
                   pImported, pAtexit, pCleanups>>

\* main, lines 470-477: r.in.gdal imports the prediction
predict_import ==
    /\ PredictInMain
    /\ pPc = "import"
    /\ pCalls' = Append(pCalls, 470)
    /\ pImported' = TRUE
    /\ pPc' = "done"
    /\ UNCHANGED <<NotPredict, pOptions, pPhase, pN, path_to_java,
                   temp_directory, missing_variables, returncode, pFiles,
                   pWIND, pHow, pMsg, pAtexit, pCleanups, pExit>>

\* an engine call (g.region of line 330, r.out.gdal, r.in.gdal) fails:
\* run_command raises CalledModuleError; a failed g.region leaves the region
\* as it was
predict_run_command_fails ==
    /\ PredictInMain
    /\ \/ pPc = "region" /\ ~pOptions.res_equal /\ pOptions.e
             /\ pCalls' = Append(pCalls, 330)
       \/ pPc = "export" /\ pN < pOptions.nlayers
             /\ pCalls' = Append(pCalls, 398)
       \/ pPc = "import" /\ pCalls' = Append(pCalls, 470)
    /\ pImported' = (pImported \/ pPc = "import")
    /\ PredictRaise("CalledModuleError")
    /\ UNCHANGED <<NotPredict, pOptions, pPc, pN, path_to_java,
                   temp_directory, missing_variables, returncode, pFiles,
                   pWIND, pAtexit, pCleanups>>

\* main, lines 478-482, and sys.exit(main(...)) of line 487
predict_main_returns ==
    /\ PredictInMain
    /\ pPc = "done"
    /\ pHow' = "return"
    /\ pExit' = 0
    /\ pPhase' = "exiting"
    /\ UNCHANGED <<NotPredict, pOptions, pPc, pN, path_to_java,
                   temp_directory, missing_variables, returncode, pFiles,
                   pWIND, pCalls, pImported, pMsg, pAtexit, pCleanups>>

\* cleanup, lines 159-164: temp_directory is a local of main, so the name
\* looked up here does not exist; the NameError is swallowed by the bare
\* except and nothing is removed
predict_cleanup ==
    /\ script = "r.maxent.predict"
    /\ pPhase = "exiting"
    /\ pAtexit # << >>
    /\ pAtexit[Len(pAtexit)] = "cleanup"
    /\ pAtexit' = SubSeq(pAtexit, 1, Len(pAtexit) - 1)
    /\ pCleanups' = pCleanups + 1
    /\ UNCHANGED <<NotPredict, pOptions, pPhase, pPc, pN, path_to_java,
                   temp_directory, missing_variables, returncode, pFiles,
                   pWIND, pCalls, pImported, pHow, pMsg, pExit>>

\* the process is gone
predict_exit ==
    /\ script = "r.maxent.predict"
    /\ pPhase = "exiting"
    /\ pAtexit = << >>
    /\ pPhase' = "exited"
    /\ UNCHANGED <<NotPredict, pOptions, pPc, pN, path_to_java,
                   temp_directory, missing_variables, returncode, pFiles,
                   pWIND, pCalls, pImported, pHow, pMsg, pAtexit, pCleanups,
                   pExit>>

\* State after gs.parser()
InitPredict ==
    /\ script = "r.maxent.predict"
    /\ OutputsIdle
    /\ VectorIdle
    /\ PipesIdle
    /\ CacheIdle
    /\ SetupIdle
    /\ MasksIdle
    /\ TwoIdle
    /\ FlattenIdle
    /\ BoxplotIdle
    /\ GbifIdle
    /\ HydroIdle
    /\ MessIdle
    /\ SlopeIdle
    /\ AttrIdle
    /\ RulesIdle
    /\ pOptions \in PredictOptions
    /\ pPhase = "start"
    /\ pPc = "java"
    /\ pN = 0
    /\ path_to_java = "<unbound>"
    /\ temp_directory = "<unbound>"
    /\ missing_variables = "<unbound>"
    /\ returncode = -1
    /\ pFiles = {}
    /\ pWIND = "region:user"
    /\ pCalls = << >>
    /\ pImported = FALSE
    /\ pHow = ""
    /\ pMsg = ""
    /\ pAtexit = << >>
    /\ pCleanups = 0
    /\ pExit = -1

NextPredict ==
    \/ predict_register_cleanup
    \/ predict_check_java
    \/ predict_check_maxent
    \/ predict_check_resolution
    \/ predict_tempdir
    \/ predict_check_layers
    \/ predict_export
    \/ predict_export_done
    \/ predict_build_command
    \/ predict_run_maxent
    \/ predict_check_returncode
    \/ predict_check_outfile
    \/ predict_import
    \/ predict_run_command_fails
    \/ predict_main_returns
    \/ predict_cleanup
    \/ predict_exit

SpecPredict == InitPredict /\ [][NextPredict]_vars

(***************************************************************************)
(* r.recode.attr                                                           *)
(***************************************************************************)
MaxRows == 2

MaxCols == 2

MaxNames == 3

RECURSIVE Join(_, _)
\* the words of a header or name, joined with a separator
Join(words, sep) ==
    IF Len(words) = 1 THEN words[1]
    ELSE words[1] \o sep \o Join(Tail(words), sep)

\* the rules table (rows data rows; one source column and cols target
\* columns whose headers are the words of header followed by the column
\* number), the number of comma-separated output names, and which output
\* (0: none) is the name of a layer of the current mapset already
AttrOptions ==
    [rows : 1..MaxRows,
     cols : 1..MaxCols,
     names : 1..MaxNames,
     header : {<<"soil">>, <<"land", "use">>},
     existing : 0..MaxCols]

\* header line of the rules file: the text of column y
AttrHeader(o, y) ==
    IF y = 0 THEN "cat" ELSE Join(o.header, " ") \o ToString(y)

\* cell of data row r, column y of the rules file
AttrCell(r, y) == IF y = 0 THEN r ELSE 10 * y + r

\* outNames = outBase.split(","), line 100
outNames(o) == [j \in 1..o.names |-> "out" \o ToString(j)]

\* np.genfromtxt(..., skip_header=1).shape, lines 107 and 111: a table with a
\* single data row is returned as a one-dimensional array
genfromtxt_shape(o) ==
    IF o.rows = 1 THEN <<o.cols + 1>> ELSE <<o.rows, o.cols + 1>>

\* np.genfromtxt(..., names=True).dtype.names, lines 110 and 112: numpy's
\* NameValidator replaces the spaces of a header by underscores
nmsData(o, y) ==
    IF y = 0 THEN "cat" ELSE Join(o.header, "_") \o ToString(y)

\* myRecode written by np.savetxt with delimiter ":", lines 118-121
myRecode(o, y) ==
    [r \in 1..o.rows |-> <<AttrCell(r, 0), AttrCell(r, 0), AttrCell(r, y)>>]

\* the output name of iteration x, lines 123-126
AttrOutputName(o, x) ==
    IF o.cols = o.names THEN outNames(o)[x + 1]
    ELSE outNames(o)[1] \o "_" \o nmsData(o, x + 1)

AttrInMain == script = "r.recode.attr" /\ aPhase = "main"

\* main, lines 106-112: load the table
attr_genfromtxt ==
    /\ AttrInMain
    /\ aPc = "genfromtxt"
    /\ dimData' = genfromtxt_shape(aOptions)
    /\ aPc' = "numVar"
    /\ UNCHANGED <<NotAttr, aOptions, aPhase, aX, nmOutput, aRecodes, aFiles,
                   aLayers, aHow, aExit>>

\* main, line 115: numVar = xrange(dimData[1] - 1); IndexError when the
\* shape has one entry only
attr_numVar ==
    /\ AttrInMain
    /\ aPc = "numVar"
    /\ IF Len(dimData) < 2
       THEN /\ aHow' = "IndexError"
            /\ aExit' = 1
            /\ aPhase' = "exited"
            /\ UNCHANGED aPc
       ELSE /\ aPc' = "for"
            /\ UNCHANGED <<aHow, aExit, aPhase>>
    /\ UNCHANGED <<NotAttr, aOptions, aX, dimData, nmOutput, aRecodes, aFiles,
                   aLayers>>

\* main, lines 116-126: the rules of column y = x + 1 are written to a
\* scratch file and the output name is chosen
attr_savetxt ==
    /\ AttrInMain
    /\ aPc = "for"
    /\ aX < dimData[2] - 1
    /\ aFiles' = aFiles + 1
    /\ nmOutput' = AttrOutputName(aOptions, aX)
    /\ aPc' = "find_file"
    /\ UNCHANGED <<NotAttr, aOptions, aPhase, aX, dimData, aRecodes, aLayers,
                   aHow, aExit>>

\* main, lines 128-130: gs.fatal when the output exists in the mapset
attr_find_file ==
    /\ AttrInMain
    /\ aPc = "find_file"
    /\ IF nmOutput \in aLayers
       THEN /\ aHow' = "fatal"
            /\ aExit' = 1
            /\ aPhase' = "exited"
            /\ UNCHANGED aPc
       ELSE /\ aPc' = "r.recode"
            /\ UNCHANGED <<aHow, aExit, aPhase>>
    /\ UNCHANGED <<NotAttr, aOptions, aX, dimData, nmOutput, aRecodes, aFiles,
                   aLayers>>

\* main, lines 132-137: r.recode
attr_recode ==
    /\ AttrInMain
    /\ aPc = "r.recode"
    /\ aRecodes' = Append(aRecodes,
                          [input |-> "inputmap", output |-> nmOutput,
                           rules |-> myRecode(aOptions, aX + 1)])
    /\ aLayers' = aLayers \cup {nmOutput}
    /\ aPc' = "os.remove"
    /\ UNCHANGED <<NotAttr, aOptions, aPhase, aX, dimData, nmOutput, aFiles,
                   aHow, aExit>>

\* main, lines 132-137: r.recode fails, run_command raises CalledModuleError
attr_recode_fails ==
    /\ AttrInMain
    /\ aPc = "r.recode"
    /\ aRecodes' = Append(aRecodes,
                          [input |-> "inputmap", output |-> nmOutput,
                           rules |-> myRecode(aOptions, aX + 1)])
    /\ aHow' = "CalledModuleError"
    /\ aExit' = 1
    /\ aPhase' = "exited"
    /\ UNCHANGED <<NotAttr, aOptions, aPc, aX, dimData, nmOutput, aFiles,
                   aLayers>>

\* main, lines 138-139: the scratch file is removed, next x
attr_os_remove ==
    /\ AttrInMain
    /\ aPc = "os.remove"
    /\ aFiles' = aFiles - 1
    /\ aX' = aX + 1
    /\ aPc' = "for"
    /\ UNCHANGED <<NotAttr, aOptions, aPhase, dimData, nmOutput, aRecodes,
                   aLayers, aHow, aExit>>

\* the loop is finished; sys.exit(main(...)) of line 143
attr_main_returns ==
    /\ AttrInMain
    /\ aPc = "for"
    /\ aX >= dimData[2] - 1
    /\ aHow' = "return"
    /\ aExit' = 0
    /\ aPhase' = "exited"
    /\ UNCHANGED <<NotAttr, aOptions, aPc, aX, dimData, nmOutput, aRecodes,
                   aFiles, aLayers>>

\* State after gs.parser()
InitAttr ==
    /\ script = "r.recode.attr"
    /\ OutputsIdle
    /\ VectorIdle
    /\ PipesIdle
    /\ CacheIdle
    /\ SetupIdle
    /\ MasksIdle
    /\ TwoIdle
    /\ FlattenIdle
    /\ BoxplotIdle
    /\ GbifIdle
    /\ HydroIdle
    /\ MessIdle
    /\ SlopeIdle
    /\ PredictIdle
    /\ RulesIdle
    /\ aOptions \in AttrOptions
    /\ aOptions.existing <= aOptions.cols
    /\ aPhase = "main"
    /\ aPc = "genfromtxt"
    /\ aX = 0
    /\ dimData = << >>
    /\ nmOutput = ""
    /\ aRecodes = << >>
    /\ aFiles = 0
    /\ aLayers = IF aOptions.existing = 0 THEN {}
                 ELSE {AttrOutputName(aOptions, aOptions.existing - 1)}
    /\ aHow = ""
    /\ aExit = -1

NextAttr ==
    \/ attr_genfromtxt
    \/ attr_numVar
    \/ attr_savetxt
    \/ attr_find_file
    \/ attr_recode
    \/ attr_recode_fails
    \/ attr_os_remove
    \/ attr_main_returns

SpecAttr == InitAttr /\ [][NextAttr]_vars

(***************************************************************************)
(* r.mess: the recode rules recode_reference_rasters writes for one         *)
(* variable, and the similarity compute_ies derives from them.  Layers are  *)
(* integers (int(digits2 * layer)); what is followed is one cell of the     *)
(* projection layer.  Percentages and similarities are fractions            *)
(* [num, den] with den > 0, so that comparisons are exact.                  *)
(***************************************************************************)
MaxValue == 3

MaxCount == 2

\* values a layer can hold
LayerValues == 0..MaxValue

\* minimum and maximum r.univar can report for the projection layer
ProjectionValues == (0 - 1)..(MaxValue + 1)

Frac(n, d) == [num |-> n, den |-> d]

\* the null value of a cell: a fraction without a denominator
Null == [num |-> 0, den |-> 0]

FracEq(x, y) == x.num * y.den = y.num * x.den

FracLeq(x, y) == x.num * y.den <= y.num * x.den

RECURSIVE sorted(_)
\* sorted(stval.items(), key=operator.itemgetter(0)), line 449
sorted(d) ==
    IF DOMAIN d = {} THEN << >>
    ELSE LET k == CHOOSE x \in DOMAIN d : \A y \in DOMAIN d : x <= y
         IN  <<<<k, d[k]>>>> \o sorted([y \in DOMAIN d \ {k} |-> d[y]])

RECURSIVE cumsum(_, _)
\* np.cumsum of the counts, line 451: the sum of the first n counts
cumsum(s, n) == IF n = 0 THEN 0 ELSE s[n][2] + cumsum(s, n - 1)

\* c = a[:, 1] / b[1] * 100, lines 451-453
cumulative_percent(s) ==
    [k \in 1..Len(s) |-> Frac(100 * cumsum(s, k), cumsum(s, Len(s)))]

envmin == sstval[1][1]

envmax == sstval[Len(sstval)][1]

\* lines 480-487
e1 == IF Dmin < envmin THEN Dmin - 1 ELSE envmin - 1

e2 == IF Dmax > envmax THEN Dmax + 1 ELSE envmax + 1

\* lines 489-491
a1 == <<e1>> \o [k \in 1..Len(sstval) |-> sstval[k][1]]

\* A faulty a2: the upper bounds are the values themselves, not the
\* values - 1.
a2_not_decremented == [k \in 1..Len(sstval) |-> sstval[k][1]] \o <<e2>>

a2 == [k \in 1..Len(sstval) |-> sstval[k][1] - 1] \o <<e2>>

b1 == <<Frac(0, 1)>> \o cumfreq

\* r.recode, compute_ies line 207: the value of the first rule that holds
\* v, null when no rule holds it
r_recode(rules, v) ==
    IF \E k \in 1..Len(rules) : rules[k].lower <= v /\ v <= rules[k].upper
    THEN LET k == CHOOSE i \in 1..Len(rules) :
                     /\ rules[i].lower <= v /\ v <= rules[i].upper
                     /\ \A j \in 1..(i - 1) :
                           ~(rules[j].lower <= v /\ v <= rules[j].upper)
         IN  rules[k].value
    ELSE Null

\* a quotient of r.mapcalc: null when the divisor is 0
Quotient(n, d) == IF d = 0 THEN Null ELSE Frac(100 * n, d)

\* the r.mapcalc expression of compute_ies, lines 211-219
ies_expression(f, v, INenvmin, INenvmax) ==
    IF f = Null THEN Null
    ELSE IF f.num = 0
    THEN Quotient(v - INenvmin, INenvmax - INenvmin)
    ELSE IF f.num <= 50 * f.den
    THEN Frac(2 * f.num, f.den)
    ELSE IF f.num < 100 * f.den
    THEN Frac(2 * (100 * f.den - f.num), f.den)
    ELSE Quotient(INenvmax - v, INenvmax - INenvmin)

InRules == script = "r.mess: recode rules"

\* recode_reference_rasters, lines 440-453: the frequency table is sorted
\* and the cumulative percentages are computed
rules_frequencies ==
    /\ InRules
    /\ rPc = "r.stats"
    /\ sstval' = sorted(stval)
    /\ cumfreq' = cumulative_percent(sorted(stval))
    /\ rPc' = "r.univar"
    /\ UNCHANGED <<NotRules, stval, Dmin, Dmax, tmprule, rV, rF, rIes>>

\* recode_reference_rasters, lines 468-476: the range of the projection layer
rules_univar ==
    /\ InRules
    /\ rPc = "r.univar"
    /\ \E lo, hi \in ProjectionValues :
          /\ lo <= hi
          /\ Dmin' = lo
          /\ Dmax' = hi
    /\ rPc' = "write"
    /\ UNCHANGED <<NotRules, stval, sstval, cumfreq, tmprule, rV, rF, rIes>>

\* recode_reference_rasters, lines 477-498: the rules file is written
rules_write ==
    /\ InRules
    /\ rPc = "write"
    /\ tmprule' = [k \in 1..Len(b1) |->
                      [lower |-> a1[k], upper |-> a2[k], value |-> b1[k]]]
    /\ rPc' = "compute_ies"
    /\ UNCHANGED <<NotRules, stval, sstval, cumfreq, Dmin, Dmax, rV, rF, rIes>>

\* compute_ies, lines 207-219, for a cell of the projection layer
compute_ies ==
    /\ InRules
    /\ rPc = "compute_ies"
    /\ \E v \in Dmin..Dmax :
          /\ rV' = v
          /\ rF' = r_recode(tmprule, v)
          /\ rIes' = ies_expression(r_recode(tmprule, v), v, envmin, envmax)
    /\ rPc' = "done"
    /\ UNCHANGED <<NotRules, stval, sstval, cumfreq, Dmin, Dmax, tmprule>>

\* r.stats has reported the values of the reference layer with their counts
InitRules ==
    /\ script = "r.mess: recode rules"
    /\ OutputsIdle
    /\ VectorIdle
    /\ PipesIdle
    /\ CacheIdle
    /\ SetupIdle
    /\ MasksIdle
    /\ TwoIdle
    /\ FlattenIdle
    /\ BoxplotIdle
    /\ GbifIdle
    /\ HydroIdle
    /\ MessIdle
    /\ SlopeIdle
    /\ PredictIdle
    /\ AttrIdle
    /\ rPc = "r.stats"
    /\ \E S \in (SUBSET LayerValues) \ {{}} : stval \in [S -> 1..MaxCount]
    /\ sstval = << >>
    /\ cumfreq = << >>
    /\ Dmin = 0
    /\ Dmax = 0
    /\ tmprule = << >>
    /\ rV = 0
    /\ rF = Null
    /\ rIes = Null

NextRules ==
    \/ rules_frequencies
    \/ rules_univar
    \/ rules_write
    \/ compute_ies

SpecRules == InitRules /\ [][NextRules]_vars

(***************************************************************************)
(* v.in.gbif: process_csv.  A row of the input file is "plain" (bytes that  *)
(* mean the same in every encoding), "utf8" (valid UTF-8 beyond ASCII),     *)
(* "invalid" (bytes that are not valid UTF-8) or "oversized" (a field       *)
(* larger than the csv module's field size limit).                          *)
(***************************************************************************)
MaxCsvRows == 3

RowKinds == {"plain", "utf8", "invalid", "oversized"}

Encodings == {"ascii", "utf-8", "latin-1"}

\* the encoding process_file opens the input with: the system default for
\* the primary call (input_encoding=None), utf-8 for the fallback
GbifEncoding == IF gErrors = "strict" THEN gLocale ELSE "utf-8"

\* whether the bytes of a row decode without an error
Decodable(row, encoding, errors) ==
    \/ errors = "replace"
    \/ row \in {"plain", "oversized"}
    \/ encoding = "latin-1"
    \/ encoding = "utf-8" /\ row = "utf8"

\* the text the reader yields for a row
Decode(row, encoding, errors) ==
    CASE row \in {"plain", "oversized"} -> row
      [] encoding = "latin-1" -> "mojibake"
      [] encoding = "utf-8" /\ row = "utf8" -> "utf8"
      [] OTHER -> "replaced"

\* gs.fatal of the except clause that catches exception, lines 111-135: the
\* clauses of the inner try for the fallback call, of the outer try for the
\* primary call
GbifHandler(exception) ==
    IF Len(gAttempts) = 1
    THEN CASE exception = "UnicodeDecodeError" -> [pc |-> "fallback", msg |-> ""]
           [] exception = "FileNotFoundError" ->
                [pc |-> "fatal", msg |-> "Error: File not found"]
           [] OTHER -> [pc |-> "fatal", msg |-> "An unexpected error occurred"]
    ELSE CASE exception = "UnicodeDecodeError" ->
                [pc |-> "fatal",
                 msg |-> "Error: Unable to decode the file even with fallback encoding"]
           [] OTHER ->
                [pc |-> "fatal",
                 msg |-> "An unexpected error occurred during fallback processing"]

InGbif == script = "v.in.gbif"

\* A faulty gbif_process_file: the output is opened for appending.
gbif_process_file_appending ==
    /\ InGbif
    /\ gPc \in {"primary", "fallback"}
    /\ gErrors' = IF gPc = "primary" THEN "strict" ELSE "replace"
    /\ gAttempts' = Append(gAttempts, gErrors')
    /\ gPos' = 1
    /\ gPc' = "reading"
    /\ ~gMissing
    /\ UNCHANGED <<NotGbif, gRows, gMissing, gLocale, gRaised, gMsg, gOut>>

\* process_file(input_encoding, handle_errors), lines 76-94, called at line
\* 110 (primary) or 119 (fallback): the input is opened, then the output is
\* opened for writing, which empties it
gbif_process_file ==
    /\ InGbif
    /\ gPc \in {"primary", "fallback"}
    /\ gErrors' = IF gPc = "primary" THEN "strict" ELSE "replace"
    /\ gAttempts' = Append(gAttempts, gErrors')
    /\ gOut' = << >>
    /\ gPos' = 1
    /\ gPc' = "reading"
    /\ ~gMissing
    /\ UNCHANGED <<NotGbif, gRows, gMissing, gLocale, gRaised, gMsg>>

\* open(gbifraw) of line 89 raises FileNotFoundError: the output is not
\* opened
gbif_file_not_found ==
    /\ InGbif
    /\ gPc \in {"primary", "fallback"}
    /\ gMissing
    /\ gErrors' = IF gPc = "primary" THEN "strict" ELSE "replace"
    /\ gAttempts' = Append(gAttempts, gErrors')
    /\ gRaised' = Append(gRaised, "FileNotFoundError")
    /\ LET h == IF gPc = "primary"
                THEN [pc |-> "fatal", msg |-> "Error: File not found"]
                ELSE [pc |-> "fatal",
                      msg |-> "An unexpected error occurred during fallback processing"]
       IN  gPc' = h.pc /\ gMsg' = h.msg
    /\ UNCHANGED <<NotGbif, gRows, gMissing, gLocale, gPos, gOut>>

\* lines 98-99: the reader yields a row and the writer writes it
gbif_writerow ==
    /\ InGbif
    /\ gPc = "reading"
    /\ gPos <= Len(gRows)
    /\ gRows[gPos] # "oversized"
    /\ Decodable(gRows[gPos], GbifEncoding, gErrors)
    /\ gOut' = Append(gOut, Decode(gRows[gPos], GbifEncoding, gErrors))
    /\ gPos' = gPos + 1
    /\ UNCHANGED <<NotGbif, gRows, gMissing, gLocale, gPc, gErrors, gAttempts,
                   gRaised, gMsg>>

\* the file object decodes the input a buffer at a time: UnicodeDecodeError
\* is raised when the buffer read for the next row holds bytes that do not
\* decode, which may belong to a later row
gbif_decode_error ==
    /\ InGbif
    /\ gPc = "reading"
    /\ \E j \in gPos..Len(gRows) : ~Decodable(gRows[j], GbifEncoding, gErrors)
    /\ gRaised' = Append(gRaised, "UnicodeDecodeError")
    /\ gPc' = GbifHandler("UnicodeDecodeError").pc
    /\ gMsg' = GbifHandler("UnicodeDecodeError").msg
    /\ UNCHANGED <<NotGbif, gRows, gMissing, gLocale, gErrors, gPos, gOut,
                   gAttempts>>

\* the csv reader raises csv.Error for a field beyond the size limit
gbif_csv_error ==
    /\ InGbif
    /\ gPc = "reading"
    /\ gPos <= Len(gRows)
    /\ gRows[gPos] = "oversized"
    /\ gRaised' = Append(gRaised, "csv.Error")
    /\ gPc' = GbifHandler("csv.Error").pc
    /\ gMsg' = GbifHandler("csv.Error").msg
    /\ UNCHANGED <<NotGbif, gRows, gMissing, gLocale, gErrors, gPos, gOut,
                   gAttempts>>

\* the input is exhausted: process_file and process_csv return
gbif_processed ==
    /\ InGbif
    /\ gPc = "reading"
    /\ gPos > Len(gRows)
    /\ gRaised' = Append(gRaised, "")
    /\ gPc' = "returned"
    /\ UNCHANGED <<NotGbif, gRows, gMissing, gLocale, gErrors, gPos, gOut,
                   gAttempts, gMsg>>

RECURSIVE InputFiles(_)
\* the input files of at most n rows
InputFiles(n) ==
    IF n = 0 THEN {<< >>}
    ELSE InputFiles(n - 1)
         \cup {Append(f, r) : f \in {x \in InputFiles(n - 1) : Len(x) = n - 1},
                              r \in RowKinds}

\* process_csv is called, line 165
InitGbif ==
    /\ script = "v.in.gbif"
    /\ OutputsIdle
    /\ VectorIdle
    /\ PipesIdle
    /\ CacheIdle
    /\ SetupIdle
    /\ MasksIdle
    /\ TwoIdle
    /\ FlattenIdle
    /\ BoxplotIdle
    /\ HydroIdle
    /\ MessIdle
    /\ SlopeIdle
    /\ PredictIdle
    /\ AttrIdle
    /\ RulesIdle
    /\ gRows \in InputFiles(MaxCsvRows)
    /\ gMissing \in BOOLEAN
    /\ gMissing => gRows = << >>
    /\ gLocale \in Encodings
    /\ gPc = "primary"
    /\ gErrors = "strict"
    /\ gPos = 1
    /\ gOut = << >>
    /\ gAttempts = << >>
    /\ gRaised = << >>
    /\ gMsg = ""

NextGbif ==
    \/ gbif_process_file
    \/ gbif_file_not_found
    \/ gbif_writerow
    \/ gbif_decode_error
    \/ gbif_csv_error
    \/ gbif_processed

SpecGbif == InitGbif /\ [][NextGbif]_vars

(***************************************************************************)
(* v.boxplot with group_by: the order of the boxes                         *)
(***************************************************************************)
MaxTableRows == 3

MaxBoxValue == 3

BoxGroups == {"A", "B", "C"}

RECURSIVE Tables(_)
\* the tables of at most n rows (group, value)
Tables(n) ==
    IF n = 0 THEN {<< >>}
    ELSE Tables(n - 1)
         \cup {Append(t, <<g, v>>) :
                  t \in {x \in Tables(n - 1) : Len(x) = n - 1},
                  g \in BoxGroups, v \in 1..MaxBoxValue}

\* the sequence s without its k-th element
RemoveAt(s, k) == SubSeq(s, 1, k - 1) \o SubSeq(s, k + 1, Len(s))

RECURSIVE SortValues(_)
\* the values of s in ascending order
SortValues(s) ==
    IF s = << >> THEN << >>
    ELSE LET k == CHOOSE i \in 1..Len(s) : \A j \in 1..Len(s) : s[i] <= s[j]
         IN  <<s[k]>> \o SortValues(RemoveAt(s, k))

\* np.median, line 370, times 2: the sum of the two middle values (twice the
\* middle value when their number is odd)
median2(values) ==
    LET s == SortValues(values)
        n == Len(s)
    IN  IF n % 2 = 1 THEN 2 * s[(n + 1) \div 2]
        ELSE s[n \div 2] + s[n \div 2 + 1]

\* the values v of the rows of t that satisfy the test, in row order
RECURSIVE ValuesOf(_, _)
ValuesOf(t, m) ==
    IF t = << >> THEN << >>
    ELSE (IF t[1][1] = m THEN <<t[1][2]>> ELSE << >>) \o ValuesOf(Tail(t), m)

RECURSIVE list_sort(_, _)
\* sf.sort(key=operator.itemgetter(1), reverse=reverse), line 374: a stable
\* sort, also with reverse=True
list_sort(s, reverse) ==
    IF s = << >> THEN << >>
    ELSE LET best(i) == \A j \in 1..Len(s) :
                            IF reverse THEN s[i][2] >= s[j][2]
                            ELSE s[i][2] <= s[j][2]
             k == CHOOSE i \in 1..Len(s) :
                     best(i) /\ \A j \in 1..(i - 1) : ~best(j)
         IN  <<s[k]>> \o list_sort(RemoveAt(s, k), reverse)

\* A faulty box_positions: the boxes are placed in the order of uid.
box_positions_unordered(u, s) == [k \in 1..Len(u) |-> k - 1]

\* ii = {e: i for i, e in enumerate(sf)} and
\* sfo = [ii[e] for i, e in enumerate(uid) if e in ii], lines 376-377
box_positions(u, s) ==
    [k \in 1..Len(u) |->
        (CHOOSE i \in 1..Len(s) : s[i] = u[k]) - 1]

InBoxplot == script = "v.boxplot"

\* lines 360-370: the rows are split, uid = list(set(groups)) lists the
\* groups in an order the hash of the strings decides, data and sf are
\* filled in that order
boxplot_groups ==
    /\ InBoxplot
    /\ bPc = "groups"
    /\ LET S == {df[k][1] : k \in 1..Len(df)} IN
       \E u \in [1..Cardinality(S) -> S] :
          /\ \A i, j \in 1..Cardinality(S) : u[i] = u[j] => i = j
          /\ uid' = u
          /\ bxData' = [k \in 1..Len(u) |-> ValuesOf(df, u[k])]
          /\ sf' = [k \in 1..Len(u) |-> <<u[k], median2(ValuesOf(df, u[k]))>>]
    /\ bPc' = "order"
    /\ UNCHANGED <<NotBoxplot, bOrder, df, sfo, bBoxes>>

\* lines 314-319 and 372-377: the boxes are ordered
boxplot_order ==
    /\ InBoxplot
    /\ bPc = "order"
    /\ LET sorted_sf == IF bOrder = "" THEN sf
                        ELSE list_sort(sf, bOrder = "descending")
           names == [k \in 1..Len(sorted_sf) |-> sorted_sf[k][1]]
       IN  /\ sf' = names
           /\ sfo' = box_positions(uid, names)
    /\ bPc' = "boxplot"
    /\ UNCHANGED <<NotBoxplot, bOrder, df, uid, bxData, bBoxes>>

\* ax.boxplot(data, labels=uid, positions=sfo, ...), lines 380-394: the k-th
\* box shows data[k] with the label uid[k] at position sfo[k]
boxplot_draw ==
    /\ InBoxplot
    /\ bPc = "boxplot"
    /\ bBoxes' = {[position |-> sfo[k], label |-> uid[k], values |-> bxData[k]] :
                     k \in 1..Len(uid)}
    /\ bPc' = "done"
    /\ UNCHANGED <<NotBoxplot, bOrder, df, uid, bxData, sf, sfo>>

\* v.db.select has returned the rows of the table, lines 328-334
InitBoxplot ==
    /\ script = "v.boxplot"
    /\ OutputsIdle
    /\ VectorIdle
    /\ PipesIdle
    /\ CacheIdle
    /\ SetupIdle
    /\ MasksIdle
    /\ TwoIdle
    /\ FlattenIdle
    /\ HydroIdle
    /\ MessIdle
    /\ SlopeIdle
    /\ PredictIdle
    /\ AttrIdle
    /\ RulesIdle
    /\ GbifIdle
    /\ bOrder \in {"", "ascending", "descending"}
    /\ df \in Tables(MaxTableRows)
    /\ uid = << >>
    /\ bxData = << >>
    /\ sf = << >>
    /\ sfo = << >>
    /\ bBoxes = {}
    /\ bPc = "groups"

NextBoxplot ==
    \/ boxplot_groups
    \/ boxplot_order
    \/ boxplot_draw

SpecBoxplot == InitBoxplot /\ [][NextBoxplot]_vars

\* ---------------------------------------------------------------------------
\* r.hydro.flatten: the rasters main computes (lines 112-250), without
\* breaklines and without min_size, on a region of one row of square cells.
\* A raster is the sequence of its cell values; elevations and categories
\* are positive and NullCell is the null value.
\* ---------------------------------------------------------------------------

RegionCols == 13
Percentiles == {0, 50, 100}
Terrains == {"up", "down"}

NullCell == 0
filling_distance == 3
filling_cells == 6
buffer_last_strip == filling_distance + 2

Cells == 1..RegionCols

Abs(x) == IF x < 0 THEN 0 - x ELSE x

\* the elevation of cell c on a terrain
Elevation(terrain, c) ==
    IF terrain = "up" THEN c ELSE RegionCols + 1 - c

\* the ground rasters: a terrain with any set of cells without data
Grounds ==
    {[c \in Cells |-> IF c \in nodata THEN NullCell ELSE Elevation(t, c)] :
        t \in Terrains, nodata \in SUBSET Cells}

RECURSIVE SumOver(_, _)
\* the sum of f over the set S
SumOver(f, S) ==
    IF S = {} THEN 0
    ELSE LET x == CHOOSE y \in S : TRUE IN f[x] + SumOver(f, S \ {x})

\* r.fill.stats -k, lines 133-140: a cell with data keeps its value; a cell
\* without data that has at least filling_cells cells with data within
\* filling_distance cells gets their mean, weighted by the inverse square of
\* the distance (36, 9 and 4 for the distances 1, 2 and 3)
fill_stats(input) ==
    [c \in Cells |->
        IF input[c] # NullCell THEN input[c]
        ELSE LET near == {d \in Cells : d # c /\ Abs(d - c) <= filling_distance
                                         /\ input[d] # NullCell}
                 w == [d \in Cells |-> 36 \div (Abs(d - c) * Abs(d - c) + (IF d = c THEN 1 ELSE 0))]
             IN  IF Cardinality(near) >= filling_cells
                 THEN SumOver([d \in Cells |-> w[d] * input[d]], near)
                          \div SumOver(w, near)
                 ELSE NullCell]

\* line 142: tmp_holes = if(isnull(tmp_rfillstats), 1, null())
holes_mapcalc(filled) ==
    [c \in Cells |-> IF filled[c] = NullCell THEN 1 ELSE NullCell]

\* r.buffer, lines 144-150, with the distances 1, 2, ..., buffer_last_strip - 1
\* cells: category 1 on the cells of the input, category k + 1 on the cells
\* whose distance to the nearest cell of the input is k, null further away
r_buffer(input) ==
    [c \in Cells |->
        LET from == {d \in Cells : input[d] # NullCell}
        IN  IF from = {} THEN NullCell
            ELSE LET dist == CHOOSE k \in 0..RegionCols :
                                 /\ \E d \in from : Abs(d - c) = k
                                 /\ \A d \in from : Abs(d - c) >= k
                 IN  IF dist <= buffer_last_strip - 1 THEN dist + 1 ELSE NullCell]

\* r.reclass, lines 160-167: "1 thru buffer_last_strip = 1"
reclass_for_clump(buffer) ==
    [c \in Cells |-> IF buffer[c] >= 1 /\ buffer[c] <= buffer_last_strip
                     THEN 1 ELSE NullCell]

\* r.clump -d, line 169: the maximal runs of cells with data are numbered
\* from 1 in the order of the cells
r_clump(input) ==
    [c \in Cells |->
        IF input[c] = NullCell THEN NullCell
        ELSE Cardinality({d \in 1..c : input[d] # NullCell
                                       /\ (d = 1 \/ input[d - 1] = NullCell)})]

\* line 171-173, with the band of a faulty variant: the clump of the cells
\* of the second to last band
strip_mapcalc_inner_band(buffer, clump) ==
    [c \in Cells |-> IF buffer[c] = buffer_last_strip - 1 THEN clump[c] ELSE NullCell]

\* lines 171-173: tmp_strip = if (tmp_buffer == buffer_last_strip, tmp_clump, null())
strip_mapcalc(buffer, clump) ==
    [c \in Cells |-> IF buffer[c] = buffer_last_strip THEN clump[c] ELSE NullCell]

\* the values of cover on the cells of S, in the order of the cells
RECURSIVE CoverValues(_, _, _)
CoverValues(cover, S, c) ==
    IF c > RegionCols THEN << >>
    ELSE (IF c \in S /\ cover[c] # NullCell THEN <<cover[c]>> ELSE << >>)
             \o CoverValues(cover, S, c + 1)

\* the percentile p of the values, times 2: the smallest value for 0, the
\* greatest for 100, the median for 50
quantile2(values, p) ==
    LET s == SortValues(values)
    IN  CASE p = 0   -> 2 * s[1]
          [] p = 100 -> 2 * s[Len(s)]
          [] p = 50  -> median2(values)

\* r.stats.quantile, lines 175-181: each cell of a zone of base gets the
\* percentile of the values of cover over the cells of the zone (times 2)
stats_quantile(base, cover, p) ==
    [c \in Cells |->
        IF base[c] = NullCell THEN NullCell
        ELSE LET v == CoverValues(cover, {d \in Cells : base[d] = base[c]}, 1)
             IN  IF v = << >> THEN NullCell ELSE quantile2(v, p)]

\* r.stats.zonal method=average, lines 191-197: each cell of a zone of base
\* gets the sum of the values of cover over the cells of the zone, divided
\* by their number; null when the zone has no cell with a value
stats_zonal_average(base, cover) ==
    [c \in Cells |->
        IF base[c] = NullCell THEN NullCell
        ELSE LET zone == {d \in Cells : base[d] = base[c] /\ cover[d] # NullCell}
             IN  IF zone = {} THEN NullCell
                 ELSE SumOver(cover, zone) \div Cardinality(zone)]

\* lines 222-224: if (isnull(tmp_strip), tmp_water_elevation_zonal, null())
zonal_res_mapcalc(strip, zonal) ==
    [c \in Cells |-> IF strip[c] = NullCell THEN zonal[c] ELSE NullCell]

InFlatten == script = "r.hydro.flatten" /\ hPhase = "idle" /\ fPc # "idle"

\* lines 133-150: r.fill.stats, the holes and the bands of r.buffer
flatten_fill_buffer ==
    /\ InFlatten
    /\ fPc = "r.fill.stats"
    /\ rfillstats' = fill_stats(ground)
    /\ fBuffer' = r_buffer(holes_mapcalc(rfillstats'))
    /\ fPc' = "r.reclass"
    /\ UNCHANGED <<NotFlatten, fPercentile, ground, fClump, fStrip, water_elevation>>

\* lines 159-173: r.reclass, r.clump and the strip
flatten_clump_strip ==
    /\ InFlatten
    /\ fPc = "r.reclass"
    /\ fClump' = r_clump(reclass_for_clump(fBuffer))
    /\ fStrip' = strip_mapcalc(fBuffer, fClump')
    /\ fPc' = "r.stats.quantile"
    /\ UNCHANGED <<NotFlatten, fPercentile, ground, rfillstats, fBuffer, water_elevation>>

\* lines 174-181, 190-197, 222-224 and 250: the percentile over each strip,
\* its average over each clump, the strip set to null, and the output
flatten_water_elevation ==
    /\ InFlatten
    /\ fPc = "r.stats.quantile"
    /\ LET tmp_water_elevation == stats_quantile(fStrip, rfillstats, fPercentile)
           tmp_water_elevation_zonal == stats_zonal_average(fClump, tmp_water_elevation)
       IN  water_elevation' = zonal_res_mapcalc(fStrip, tmp_water_elevation_zonal)
    /\ fPc' = "done"
    /\ UNCHANGED <<NotFlatten, fPercentile, ground, rfillstats, fBuffer, fClump, fStrip>>

InitFlatten ==
    /\ script = "r.hydro.flatten"
    /\ OutputsIdle
    /\ VectorIdle
    /\ PipesIdle
    /\ CacheIdle
    /\ SetupIdle
    /\ MasksIdle
    /\ TwoIdle
    /\ HydroIdle
    /\ MessIdle
    /\ SlopeIdle
    /\ PredictIdle
    /\ AttrIdle
    /\ RulesIdle
    /\ GbifIdle
    /\ BoxplotIdle
    /\ fPercentile \in Percentiles
    /\ ground \in Grounds
    /\ rfillstats = << >>
    /\ fBuffer = << >>
    /\ fClump = << >>
    /\ fStrip = << >>
    /\ water_elevation = << >>
    /\ fPc = "r.fill.stats"

NextFlatten ==
    \/ flatten_fill_buffer
    \/ flatten_clump_strip
    \/ flatten_water_elevation

SpecFlatten == InitFlatten /\ [][NextFlatten]_vars

\* ---------------------------------------------------------------------------
\* Two concurrent runs of the same script, with the same options, in one
\* mapset: the temporary layer names each of them makes and creates.
\* ---------------------------------------------------------------------------

MaxPid == 3

Runs == {1, 2}

\* gs.append_node_pid(name): the name, the node and the process id; both
\* runs are on the same node
append_node_pid(name, pid) == name \o "_node_" \o ToString(pid)

\* uuid.uuid4().hex: a value no other call returns, here the run and the
\* number of the call within the run
uuid4(run, k) == "uuid" \o ToString(run) \o "x" \o ToString(k)

IsNameStmt(st) == st.kind = "name"

IsCreateStmt(st) == st.eff = "create" /\ st.names # {R("MASK")}

\* the requests of main, in program order: the base names get_name is
\* called with (r.hydro.flatten), the prefixes create_temporary_name is
\* called with (r.mess), the fixed names of the working layers
\* calculate_metrics creates (r.slopeunits.metrics)
TempRequests(prog, fn) ==
    [k \in 1..Len(prog) |->
        [fn |-> fn,
         base |-> CASE fn = "get_name" -> prog[k].base
                    [] fn = "create_temporary_name" -> prog[k].a
                    [] OTHER -> CHOOSE n \in prog[k].names : TRUE]]

\* the name a run makes for a request
TempName(req, run) ==
    CASE req.fn = "get_name" ->
            IF tKeep THEN "intermediate_" \o req.base
            ELSE append_node_pid(req.base, tPid[run])
      [] req.fn = "create_temporary_name" ->
            req.base \o uuid4(run, tUuids[run] + 1)
      [] OTHER -> req.base

InTwo == tTodo # << >>

\* one run makes its next temporary name and creates the layer
two_create(run) ==
    /\ InTwo
    /\ tTodo[run] # << >>
    /\ LET req == Head(tTodo[run])
       IN  /\ tCreated' = [tCreated EXCEPT ![run] = @ \cup {TempName(req, run)}]
           /\ tUuids' = [tUuids EXCEPT ![run] =
                            IF req.fn = "create_temporary_name" THEN @ + 1 ELSE @]
    /\ tTodo' = [tTodo EXCEPT ![run] = Tail(@)]
    /\ UNCHANGED <<NotTwo, tKeep, tPid>>

InitTwo ==
    /\ HydroIdle
    /\ OutputsIdle
    /\ VectorIdle
    /\ PipesIdle
    /\ CacheIdle
    /\ MessIdle
    /\ SlopeIdle
    /\ PredictIdle
    /\ AttrIdle
    /\ RulesIdle
    /\ GbifIdle
    /\ BoxplotIdle
    /\ FlattenIdle
    /\ MasksIdle
    /\ SetupIdle
    /\ \E p1, p2 \in 1..MaxPid :
          /\ p1 # p2
          /\ tPid = <<p1, p2>>
    /\ \/ /\ script = "r.hydro.flatten"
          /\ \E o \in HydroOptions :
                /\ tKeep = o.k
                /\ LET todo == TempRequests(SelectSeq(HydroMain(o), IsNameStmt), "get_name")
                   IN  tTodo = <<todo, todo>>
       \/ /\ script = "r.mess"
          /\ tKeep = FALSE
          /\ \E o \in MessOptions :
                LET todo == TempRequests(SelectSeq(MessMain(o), IsNameStmt),
                                         "create_temporary_name")
                IN  tTodo = <<todo, todo>>
       \/ /\ script = "r.slopeunits.metrics"
          /\ tKeep = FALSE
          /\ LET todo == TempRequests(SelectSeq(SlopeMain, IsCreateStmt), "fixed")
             IN  tTodo = <<todo, todo>>
    /\ tUuids = <<0, 0>>
    /\ tCreated = <<{}, {}>>

NextTwo == \E run \in Runs : two_create(run)

SpecTwo == InitTwo /\ [][NextTwo]_vars

\* ---------------------------------------------------------------------------
\* Two concurrent runs of r.mess with ref_rast in one mapset: the statements
\* of main and recode_reference_rasters that read or write the raster MASK
\* (lines 421-458 and 522-527).
\* ---------------------------------------------------------------------------

OtherRun(run) == 3 - run

NoFailure == [line |-> 0, of |-> 0, by |-> 0]

\* the run stops at a line: the exception or gs.fatal ends main, and cleanup()
\* removes the run's tmpfmask
mask_fails(run, line) ==
    /\ kFailed' = [kFailed EXCEPT ![run] = [line |-> line, of |-> kMASK.of, by |-> kMASK.by]]
    /\ kPc' = [kPc EXCEPT ![run] = "failed"]
    /\ kTmp' = [kTmp EXCEPT ![run] = 0]
    /\ UNCHANGED <<kMASK, kStats, kI>>

InMasks == kPc # << >>

\* main, lines 522-527: gs.fatal when the mapset has a MASK
masks_check(run) ==
    /\ InMasks
    /\ kPc[run] = "check"
    /\ IF kMASK.of # 0
       THEN mask_fails(run, 527)
       ELSE /\ kPc' = [kPc EXCEPT ![run] = "r.mask"]
            /\ UNCHANGED <<kMASK, kTmp, kStats, kFailed, kI>>
    /\ UNCHANGED <<NotMasks, kOverwrite, kVars>>

\* line 422: r.mask raster=ref_rast; r.mask ends with an error when there
\* is a MASK and existing rasters are not replaced
masks_r_mask(run) ==
    /\ InMasks
    /\ kPc[run] = "r.mask"
    /\ IF kMASK.of # 0 /\ ~kOverwrite
       THEN mask_fails(run, 422)
       ELSE /\ kMASK' = [of |-> run, by |-> run]
            /\ kPc' = [kPc EXCEPT ![run] = "g.rename 424"]
            /\ UNCHANGED <<kTmp, kStats, kFailed, kI>>
    /\ UNCHANGED <<NotMasks, kOverwrite, kVars>>

\* lines 424 and 457: g.rename raster=MASK,tmpfmask; g.rename ends with an
\* error when there is no MASK, or when tmpfmask exists and existing rasters
\* are not replaced
masks_rename_from(run) ==
    /\ InMasks
    /\ kPc[run] \in {"g.rename 424", "g.rename 457"}
    /\ IF kMASK.of = 0 \/ (kTmp[run] # 0 /\ ~kOverwrite)
       THEN mask_fails(run, IF kPc[run] = "g.rename 424" THEN 424 ELSE 457)
       ELSE /\ kTmp' = [kTmp EXCEPT ![run] = kMASK.of]
            /\ kMASK' = [of |-> 0, by |-> run]
            /\ UNCHANGED <<kStats, kFailed>>
            /\ IF kPc[run] = "g.rename 457" /\ kI[run] = kVars
               THEN \* the loop has ended: the run goes on to its end, and
                    \* cleanup() removes tmpfmask
                    /\ kPc' = [kPc EXCEPT ![run] = "done"]
                    /\ kI' = kI
               ELSE /\ kPc' = [kPc EXCEPT ![run] = "g.rename 435"]
                    /\ kI' = [kI EXCEPT ![run] = @ + 1]
    /\ UNCHANGED <<NotMasks, kOverwrite, kVars>>

\* A faulty masks_rename_to: g.rename always replaces an existing MASK.
masks_rename_to_replacing(run) ==
    /\ InMasks
    /\ kPc[run] = "g.rename 435"
    /\ IF kTmp[run] = 0
       THEN mask_fails(run, 435)
       ELSE /\ kMASK' = [of |-> kTmp[run], by |-> run]
            /\ kTmp' = [kTmp EXCEPT ![run] = 0]
            /\ kPc' = [kPc EXCEPT ![run] = "r.stats"]
            /\ UNCHANGED <<kStats, kFailed, kI>>
    /\ UNCHANGED <<NotMasks, kOverwrite, kVars>>

\* line 435: g.rename raster=tmpfmask,MASK; g.rename ends with an error when
\* there is no tmpfmask, or when MASK exists and existing rasters are not
\* replaced
masks_rename_to(run) ==
    /\ InMasks
    /\ kPc[run] = "g.rename 435"
    /\ IF kTmp[run] = 0 \/ (kMASK.of # 0 /\ ~kOverwrite)
       THEN mask_fails(run, 435)
       ELSE /\ kMASK' = [of |-> kTmp[run], by |-> run]
            /\ kTmp' = [kTmp EXCEPT ![run] = 0]
            /\ kPc' = [kPc EXCEPT ![run] = "r.stats"]
            /\ UNCHANGED <<kStats, kFailed, kI>>
    /\ UNCHANGED <<NotMasks, kOverwrite, kVars>>

\* lines 438-453: r.mapcalc and r.stats compute the frequency distribution
\* of the reference layer under the MASK of the mapset
masks_stats(run) ==
    /\ InMasks
    /\ kPc[run] = "r.stats"
    /\ kStats' = [kStats EXCEPT ![run] = Append(@, kMASK)]
    /\ kPc' = [kPc EXCEPT ![run] = "g.rename 457"]
    /\ UNCHANGED <<NotMasks, kOverwrite, kVars, kMASK, kTmp, kFailed, kI>>

InitMasks ==
    /\ script = "r.mess"
    /\ OutputsIdle
    /\ VectorIdle
    /\ PipesIdle
    /\ CacheIdle
    /\ SetupIdle
    /\ HydroIdle
    /\ MessIdle
    /\ SlopeIdle
    /\ PredictIdle
    /\ AttrIdle
    /\ RulesIdle
    /\ GbifIdle
    /\ BoxplotIdle
    /\ FlattenIdle
    /\ TwoIdle
    /\ kOverwrite \in BOOLEAN
    /\ kVars \in 1..MaxVars
    /\ kPc = <<"check", "check">>
    /\ kI = <<0, 0>>
    /\ kMASK = [of |-> 0, by |-> 0]
    /\ kTmp = <<0, 0>>
    /\ kStats = << << >>, << >> >>
    /\ kFailed = <<NoFailure, NoFailure>>

NextMasks ==
    \E run \in Runs :
        \/ masks_check(run)
        \/ masks_r_mask(run)
        \/ masks_rename_from(run)
        \/ masks_rename_to(run)
        \/ masks_stats(run)

SpecMasks == InitMasks /\ [][NextMasks]_vars

\* ---------------------------------------------------------------------------
\* r.maxent.setup: main (lines 205-238), install_maxent (74-128) and
\* set_path_to_java (131-180).  A file of the addon scripts directory is
\* "none" (it does not exist), "old" (what was there before the run) or
\* "new" (what this run wrote).
\* ---------------------------------------------------------------------------

\* the options and flags the parser lets through: -j excludes maxent, java
\* and -u, and one of -j, maxent, java is required (lines 55-61)
SetupOptions ==
    {o \in [j : BOOLEAN, u : BOOLEAN,
            java : {"", "a file", "not a file"},
            maxent : {"", "maxent.jar", "not a file", "another name"}] :
        /\ o.j => (o.maxent = "" /\ o.java = "" /\ ~o.u)
        /\ (o.j \/ o.maxent # "" \/ o.java # "")}

\* os.path.isfile(x) for the values the script passes: a path of the addon
\* directory, or, at line 164, the bool java_txt_copy, which os.stat takes
\* as a file descriptor (False is 0, stdin; True is 1, stdout)
isfile_bool(b) == IF b THEN uEnv.stdout_isfile ELSE uEnv.stdin_isfile

InSetup == script = "r.maxent.setup" /\ uPc \notin {"idle", "exited"}

setup_fatal(msg) ==
    /\ uMsg' = Append(uMsg, msg)
    /\ uHow' = "fatal"
    /\ uPc' = "exited"

\* main, lines 207-219: -j reports whether java is found
setup_check_java ==
    /\ InSetup
    /\ uPc = "flag j"
    /\ uMsg' = IF uOptions.j
               THEN Append(uMsg, IF uEnv.java_findable THEN "java is accessible"
                                 ELSE "java cannot be found")
               ELSE uMsg
    /\ uPc' = "java"
    /\ UNCHANGED <<NotSetup, uOptions, uEnv, uBefore, uFiles, uHow>>

\* set_path_to_java(java, overwrite), lines 131-180
set_path_to_java(java, overwrite) ==
    IF java = "not a file"
    THEN setup_fatal("java executable not found") /\ uFiles' = uFiles
    ELSE LET java_txt_copy == uFiles.txt # "none"
         IN  IF java_txt_copy /\ overwrite
             THEN /\ uFiles' = [uFiles EXCEPT !.txt = "new"]
                  /\ uMsg' = Append(uMsg, "text file created")
                  /\ uPc' = "maxent"
                  /\ uHow' = uHow
             ELSE IF ~isfile_bool(java_txt_copy)
             THEN /\ uFiles' = [uFiles EXCEPT !.txt = "new"]
                  /\ uMsg' = Append(uMsg, "text file created")
                  /\ uPc' = "maxent"
                  /\ uHow' = uHow
             ELSE setup_fatal("text file exists, use -u") /\ uFiles' = uFiles

\* main, lines 221-234: the path to java is stored, or java is looked for
setup_java ==
    /\ InSetup
    /\ uPc = "java"
    /\ IF uOptions.java # ""
       THEN set_path_to_java(uOptions.java, uOptions.u)
       ELSE /\ uMsg' = IF uEnv.java_findable THEN uMsg
                       ELSE Append(uMsg, "java is not installed")
            /\ uPc' = "maxent"
            /\ UNCHANGED <<uFiles, uHow>>
    /\ UNCHANGED <<NotSetup, uOptions, uEnv, uBefore>>

\* install_maxent(maxent, overwrite), lines 74-128, and the return of main
install_maxent(maxent, overwrite) ==
    IF maxent = "not a file"
    THEN setup_fatal("maxent.jar not found") /\ uFiles' = uFiles
    ELSE IF maxent # "maxent.jar"
    THEN setup_fatal("the name should be maxent.jar") /\ uFiles' = uFiles
    ELSE LET maxent_copy == uFiles.jar # "none"
         IN  IF maxent_copy /\ overwrite
             THEN /\ uFiles' = [uFiles EXCEPT !.jar = "new"]
                  /\ uMsg' = Append(uMsg, "replaced maxent.jar")
                  /\ uHow' = "return"
                  /\ uPc' = "exited"
             ELSE IF uFiles.jar = "none"
             THEN /\ uFiles' = [uFiles EXCEPT !.jar = "new"]
                  /\ uMsg' = Append(uMsg, "copied maxent.jar")
                  /\ uHow' = "return"
                  /\ uPc' = "exited"
             ELSE setup_fatal("maxent.jar exists, use -u") /\ uFiles' = uFiles

\* main, lines 236-238: maxent.jar is installed, and main returns
setup_maxent ==
    /\ InSetup
    /\ uPc = "maxent"
    /\ IF uOptions.maxent # ""
       THEN install_maxent(uOptions.maxent, uOptions.u)
       ELSE /\ uHow' = "return"
            /\ uPc' = "exited"
            /\ UNCHANGED <<uFiles, uMsg>>
    /\ UNCHANGED <<NotSetup, uOptions, uEnv, uBefore>>

InitSetup ==
    /\ script = "r.maxent.setup"
    /\ OutputsIdle
    /\ VectorIdle
    /\ PipesIdle
    /\ CacheIdle
    /\ HydroIdle
    /\ MessIdle
    /\ SlopeIdle
    /\ PredictIdle
    /\ AttrIdle
    /\ RulesIdle
    /\ GbifIdle
    /\ BoxplotIdle
    /\ FlattenIdle
    /\ TwoIdle
    /\ MasksIdle
    /\ uOptions \in SetupOptions
    /\ uEnv \in [java_findable : BOOLEAN, stdin_isfile : BOOLEAN, stdout_isfile : BOOLEAN]
    /\ uBefore \in [jar : {"none", "old"}, txt : {"none", "old"}]
    /\ uFiles = uBefore
    /\ uPc = "flag j"
    /\ uHow = ""
    /\ uMsg = << >>

NextSetup ==
    \/ setup_check_java
    \/ setup_java
    \/ setup_maxent

SpecSetup == InitSetup /\ [][NextSetup]_vars

\* ---------------------------------------------------------------------------
\* The cached path to java.  r.maxent.setup java=<path> writes the path to
\* <GRASS_ADDON_BASE>/scripts/r_maxent_path_to_java.txt (main, line 223, and
\* set_path_to_java, lines 131-180); a later r.maxent.predict run without
\* the java option, with the same GRASS_ADDON_BASE, reads it back
\* (check_java_txtfile, lines 230-264) and selects the interpreter (main,
\* lines 280-302).  A path is a sequence of characters.
\* ---------------------------------------------------------------------------

PathChars == {"/", "j", " ", "\n"}

MaxPathLen == 3

PathStrings == UNION {[1..n -> PathChars] : n \in 1..MaxPathLen}

\* the files of the machine that may be java executables
JavaPaths == {<<"j">>, <<"j", " ">>, <<"/", "j">>}

\* the text file does not exist
NoFile == <<"<no file>">>

\* path_to_java has not been assigned
Unbound == <<"<unbound>">>

\* what str.strip() removes, among PathChars
Whitespace == {" ", "\n"}

RECURSIVE normpath_join(_, _)
\* the characters of path from index i on, without the slashes that
\* os.path.normpath drops: those before the first component, those after
\* the last one, and all but the last of a run
normpath_join(path, i) ==
    IF i > Len(path) THEN << >>
    ELSE LET keep == \/ path[i] # "/"
                     \/ /\ \E k \in 1..(i - 1) : path[k] # "/"
                        /\ i < Len(path)
                        /\ path[i + 1] # "/"
         IN  (IF keep THEN <<path[i]>> ELSE << >>) \o normpath_join(path, i + 1)

\* os.path.normpath(path) of a non-empty path with no "." or ".." component:
\* one leading slash is kept, exactly two are kept, three or more become one
normpath(path) ==
    LET initial_slashes ==
            IF path[1] # "/" THEN 0
            ELSE IF /\ Len(path) >= 2
                    /\ path[2] = "/"
                    /\ ~(Len(path) >= 3 /\ path[3] = "/")
            THEN 2 ELSE 1
    IN  [i \in 1..initial_slashes |-> "/"] \o normpath_join(path, 1)

\* file.readline(): the content up to and including the first newline
readline(content) ==
    LET newlines == {i \in 1..Len(content) : content[i] = "\n"}
    IN  IF newlines = {} THEN content
        ELSE SubSeq(content, 1, CHOOSE i \in newlines : \A k \in newlines : i <= k)

\* str.strip(): without the leading and the trailing whitespace
strip(s) ==
    LET solid == {i \in 1..Len(s) : s[i] \notin Whitespace}
    IN  IF solid = {} THEN << >>
        ELSE SubSeq(s, CHOOSE i \in solid : \A k \in solid : i <= k,
                       CHOOSE i \in solid : \A k \in solid : i >= k)

InCache == script = "r.maxent.setup, r.maxent.predict" /\ cPc # "idle"

\* r.maxent.setup, main line 223 and set_path_to_java: the normalised path
\* is written with file.write(java) when it is a file and either the text
\* file exists and -u is set, or the test of line 164 passes: that test is
\* os.path.isfile of a bool, the answer of a file descriptor of the process
\* (see isfile_bool).  Otherwise the run is fatal and the file is as before.
cache_set_path_to_java ==
    /\ InCache
    /\ cPc = "setup"
    /\ LET java == normpath(cJava)
           java_txt_copy == cTxt # NoFile
       IN  \E fd_isfile \in BOOLEAN :
               IF java \notin cFiles
               THEN UNCHANGED <<cTxt, cWritten>>
               ELSE IF (java_txt_copy /\ cOverwrite) \/ ~fd_isfile
               THEN cTxt' = java /\ cWritten' = TRUE
               ELSE UNCHANGED <<cTxt, cWritten>>
    /\ cPc' = "txtfile"
    /\ UNCHANGED <<NotCache, cJava, cOverwrite, cFiles, cFunctional,
                   cSystemJava, cJav, cPathToJava>>

\* r.maxent.predict, check_java_txtfile: None (the empty sequence here)
\* without the file, with an empty first line, or when the path read does
\* not exist or is not functional; else the first line, stripped
check_java_txtfile_read(txt) ==
    IF txt = NoFile THEN << >>
    ELSE LET java_path == strip(readline(txt))
         IN  IF java_path = << >> THEN << >>
             ELSE IF java_path \notin cFiles \/ java_path \notin cFunctional
             THEN << >>
             ELSE java_path

\* main, line 280
cache_check_java_txtfile ==
    /\ InCache
    /\ cPc = "txtfile"
    /\ cJav' = check_java_txtfile_read(cTxt)
    /\ cPc' = "select"
    /\ UNCHANGED <<NotCache, cJava, cOverwrite, cFiles, cFunctional,
                   cSystemJava, cTxt, cWritten, cPathToJava>>

\* main, lines 281-302, options["java"] being empty: the path of the text
\* file, else "java" when it runs, else a warning and no assignment
cache_select_java ==
    /\ InCache
    /\ cPc = "select"
    /\ cPathToJava' = IF cJav # << >> THEN cJav
                      ELSE IF cSystemJava THEN <<"j", "a", "v", "a">>
                      ELSE Unbound
    /\ cPc' = "done"
    /\ UNCHANGED <<NotCache, cJava, cOverwrite, cFiles, cFunctional,
                   cSystemJava, cTxt, cWritten, cJav>>

InitCache ==
    /\ script = "r.maxent.setup, r.maxent.predict"
    /\ OutputsIdle
    /\ VectorIdle
    /\ PipesIdle
    /\ HydroIdle
    /\ MessIdle
    /\ SlopeIdle
    /\ PredictIdle
    /\ AttrIdle
    /\ RulesIdle
    /\ GbifIdle
    /\ BoxplotIdle
    /\ FlattenIdle
    /\ TwoIdle
    /\ MasksIdle
    /\ SetupIdle
    /\ cJava \in PathStrings
    /\ cOverwrite \in BOOLEAN
    /\ cFiles \in SUBSET JavaPaths
    /\ cFunctional \in SUBSET cFiles
    /\ cSystemJava \in BOOLEAN
    /\ cTxt \in {NoFile, <<"j">>}
    /\ cWritten = FALSE
    /\ cJav = << >>
    /\ cPathToJava = Unbound
    /\ cPc = "setup"

NextCache ==
    \/ cache_set_path_to_java
    \/ cache_check_java_txtfile
    \/ cache_select_java

SpecCache == InitCache /\ [][NextCache]_vars

\* ---------------------------------------------------------------------------
\* r.maxent.predict, main lines 435-458: the script and the Maxent
\* subprocess run side by side, joined by the two pipes of
\* subprocess.Popen(stdout=PIPE, stderr=PIPE).  A pipe holds PipeCapacity
\* lines: a write to a full pipe blocks the writer, a read of an empty
\* pipe blocks the reader until a line arrives or the writer has closed
\* its end.  What the subprocess writes, and in which order, is for Maxent
\* to decide.
\* ---------------------------------------------------------------------------

PipeCapacity == 2

MaxWrites == 4

\* a line of stdout, a line of stderr, the line of stderr that names
\* java.util.NoSuchElementException
ChildLines == {"out", "err", "err NoSuchElementException"}

ChildPrograms == UNION {[1..n -> ChildLines] : n \in 0..MaxWrites}

InPipes == script = "r.maxent.predict, Maxent" /\ qStage # "idle"

\* the subprocess writes its next line; it blocks while the pipe is full
child_write ==
    /\ InPipes
    /\ qAlive
    /\ qChild # << >>
    /\ IF Head(qChild) = "out"
       THEN /\ Len(qStdout) < PipeCapacity
            /\ qStdout' = Append(qStdout, Head(qChild))
            /\ UNCHANGED qStderr
       ELSE /\ Len(qStderr) < PipeCapacity
            /\ qStderr' = Append(qStderr, Head(qChild))
            /\ UNCHANGED qStdout
    /\ qChild' = Tail(qChild)
    /\ UNCHANGED <<NotPipes, qAlive, qStage, qForwarded, qMissing>>

\* the subprocess has written everything and exits: both pipes are closed
\* at its end
child_exit ==
    /\ InPipes
    /\ qAlive
    /\ qChild = << >>
    /\ qAlive' = FALSE
    /\ UNCHANGED <<NotPipes, qChild, qStdout, qStderr, qStage, qForwarded,
                   qMissing>>

\* lines 443-444: for stdout_line in process.stdout: gs.info(stdout_line)
predict_read_stdout ==
    /\ InPipes
    /\ qStage = "stdout"
    /\ IF qStdout # << >>
       THEN /\ qForwarded' = Append(qForwarded, Head(qStdout))
            /\ qStdout' = Tail(qStdout)
            /\ UNCHANGED qStage
       ELSE /\ ~qAlive
            /\ qStage' = "stderr"
            /\ UNCHANGED <<qForwarded, qStdout>>
    /\ UNCHANGED <<NotPipes, qChild, qAlive, qStderr, qMissing>>

\* lines 446-451: for stderr_line in process.stderr, entered once stdout
\* has reached its end
predict_read_stderr ==
    /\ InPipes
    /\ qStage = "stderr"
    /\ IF qStderr # << >>
       THEN /\ qForwarded' = Append(qForwarded, Head(qStderr))
            /\ qMissing' = (qMissing \/ Head(qStderr) = "err NoSuchElementException")
            /\ qStderr' = Tail(qStderr)
            /\ UNCHANGED qStage
       ELSE /\ ~qAlive
            /\ qStage' = "wait"
            /\ UNCHANGED <<qForwarded, qStderr, qMissing>>
    /\ UNCHANGED <<NotPipes, qChild, qAlive, qStdout>>

\* line 453: process.wait()
predict_wait ==
    /\ InPipes
    /\ qStage = "wait"
    /\ ~qAlive
    /\ qStage' = "done"
    /\ UNCHANGED <<NotPipes, qChild, qAlive, qStdout, qStderr, qForwarded,
                   qMissing>>

InitPipes ==
    /\ script = "r.maxent.predict, Maxent"
    /\ OutputsIdle
    /\ VectorIdle
    /\ HydroIdle
    /\ MessIdle
    /\ SlopeIdle
    /\ PredictIdle
    /\ AttrIdle
    /\ RulesIdle
    /\ GbifIdle
    /\ BoxplotIdle
    /\ FlattenIdle
    /\ TwoIdle
    /\ MasksIdle
    /\ SetupIdle
    /\ CacheIdle
    /\ qChild \in ChildPrograms
    /\ qAlive = TRUE
    /\ qStdout = << >>
    /\ qStderr = << >>
    /\ qStage = "stdout"
    /\ qForwarded = << >>
    /\ qMissing = FALSE

NextPipes ==
    \/ child_write
    \/ child_exit
    \/ predict_read_stdout
    \/ predict_read_stderr
    \/ predict_wait

SpecPipes == InitPipes /\ [][NextPipes]_vars

\* ---------------------------------------------------------------------------
\* r.mess, recode_reference_vector, lines 322-385 of one iteration: the
\* frequency table of the values sampled at the reference points and the
\* recode rules made from it.  The sampled column is double precision: a
\* value is a number of tenths here, and digits2 = pow(10, digits) with
\* digits 0 or 1, so that with digits = 0 several values fall on the same
\* integer.
\* ---------------------------------------------------------------------------

MaxTenth == 6

MaxSamples == 3

SampleTenths == (0 - MaxTenth)..MaxTenth

Digits == {0, 1}

\* main, line 573
digits2(digits) == IF digits = 0 THEN 1 ELSE 10

\* int(x) of python and astype(int) of numpy, for x = n / d: towards zero
int_quotient(n, d) == IF n >= 0 THEN n \div d ELSE 0 - ((0 - n) \div d)

\* int(value * digits2), the value being given in tenths
discretise(tenths, digits) == int_quotient(tenths * digits2(digits), 10)

RECURSIVE Ascending(_)
\* the rows of `GROUP BY column ORDER BY column`: one row per value,
\* smallest first
Ascending(S) ==
    IF S = {} THEN << >>
    ELSE LET least == CHOOSE x \in S : \A y \in S : x <= y
         IN  <<least>> \o Ascending(S \ {least})

InVector == script = "r.mess: recode_reference_vector" /\ vPc # "idle"

\* lines 326-330: a = cumsum of the counts, b = their sum, c = a / b * 100
vector_frequencies ==
    /\ InVector
    /\ vPc = "select"
    /\ LET b == SumOver([k \in 1..Len(vVolval) |-> vVolval[k][2]], 1..Len(vVolval))
       IN  vC' = [k \in 1..Len(vVolval) |->
                    Frac(100 * SumOver([j \in 1..Len(vVolval) |-> vVolval[j][2]], 1..k), b)]
    /\ vPc' = "range"
    /\ UNCHANGED <<NotVector, vDigits, vVolval, vDrange, vEnv, vRule>>

\* lines 358-373: the range of the samples, that of the projection layer
\* (r.info -r), and the outer limits e1 and e2
vector_range ==
    /\ InVector
    /\ vPc = "range"
    /\ LET env_min == discretise(vVolval[1][1], vDigits)
           env_max == discretise(vVolval[Len(vVolval)][1], vDigits)
       IN  vEnv' = [envmin |-> env_min,
                    envmax |-> env_max,
                    e1 |-> IF vDrange.Dmin < env_min THEN vDrange.Dmin - 1
                           ELSE env_min - 1,
                    e2 |-> IF vDrange.Dmax > env_max THEN vDrange.Dmax + 1
                           ELSE env_max + 1]
    /\ vPc' = "rules"
    /\ UNCHANGED <<NotVector, vDigits, vVolval, vC, vDrange, vRule>>

\* lines 375-385: a0, a1 = [e1, a0], a2 = [a0 - 1, e2], b1 = [0, c], and
\* one line "a1[k]:a2[k]:b1[k]" per k
vector_write_rules ==
    /\ InVector
    /\ vPc = "rules"
    /\ LET va0 == [k \in 1..Len(vVolval) |-> discretise(vVolval[k][1], vDigits)]
           va1 == <<vEnv.e1>> \o va0
           va2 == [k \in 1..Len(va0) |-> va0[k] - 1] \o <<vEnv.e2>>
           vb1 == <<Frac(0, 1)>> \o vC
       IN  vRule' = [k \in 1..Len(vb1) |->
                        [lower |-> va1[k], upper |-> va2[k], value |-> vb1[k]]]
    /\ vPc' = "done"
    /\ UNCHANGED <<NotVector, vDigits, vVolval, vC, vDrange, vEnv>>

InitVector ==
    /\ script = "r.mess: recode_reference_vector"
    /\ OutputsIdle
    /\ HydroIdle
    /\ MessIdle
    /\ SlopeIdle
    /\ PredictIdle
    /\ AttrIdle
    /\ RulesIdle
    /\ GbifIdle
    /\ BoxplotIdle
    /\ FlattenIdle
    /\ TwoIdle
    /\ MasksIdle
    /\ SetupIdle
    /\ CacheIdle
    /\ PipesIdle
    /\ vDigits \in Digits
    /\ \E S \in SUBSET SampleTenths :
          /\ S # {}
          /\ Cardinality(S) <= MaxSamples
          /\ \E count \in [S -> 1..MaxCount] :
                vVolval = [k \in 1..Cardinality(S) |->
                              <<Ascending(S)[k], count[Ascending(S)[k]]>>]
    /\ vC = << >>
    /\ vDrange \in {r \in [Dmin : -1..1, Dmax : -1..1] : r.Dmin <= r.Dmax}
    /\ vEnv = [envmin |-> 0, envmax |-> 0, e1 |-> 0, e2 |-> 0]
    /\ vRule = << >>
    /\ vPc = "select"

NextVector ==
    \/ vector_frequencies
    \/ vector_range
    \/ vector_write_rules

SpecVector == InitVector /\ [][NextVector]_vars

\* ---------------------------------------------------------------------------
\* r.hydro.flatten, main lines 122-260, both outputs and every option: the
\* rasters of the one-row region of the model above, the breaklines as the
\* set of cells they cross, min_size as a number of cells (the resolution is
\* 1).  A standard deviation is held as 1 + its value, so that a deviation
\* of 0 stays apart from NullCell.
\* ---------------------------------------------------------------------------

\* the sizes given with min_size; 0 stands for an option that is not given
MinSizes == {0, 4, 12}

\* v.to.rast use=val value=1000 -d, lines 124-131
v_to_rast(cells) == [c \in Cells |-> IF c \in cells THEN 1000 ELSE NullCell]

\* r.patch input=first,second: the first raster where it has data
r_patch(first, second) ==
    [c \in Cells |-> IF first[c] # NullCell THEN first[c] ELSE second[c]]

\* r.stats.zonal method=stddev, lines 182-188: over each zone of base,
\* the deviation of the values of cover (here 1 + n * sum of squares -
\* square of the sum, which is 1 exactly when the deviation is 0)
stats_zonal_stddev(base, cover) ==
    [c \in Cells |->
        IF base[c] = NullCell THEN NullCell
        ELSE LET zone == {d \in Cells : base[d] = base[c] /\ cover[d] # NullCell}
                 total == SumOver(cover, zone)
             IN  IF zone = {} THEN NullCell
                 ELSE 1 + Cardinality(zone)
                            * SumOver([d \in Cells |-> cover[d] * cover[d]], zone)
                        - total * total]

\* r.neighbors size=5 selection=..., lines 214-220: a cell of the
\* selection gets the average of the cells with data of its window, two
\* cells to each side; any other cell keeps the value of the input
r_neighbors(input, selection) ==
    [c \in Cells |->
        IF selection[c] = NullCell THEN input[c]
        ELSE LET window == {d \in Cells : Abs(d - c) <= 2 /\ input[d] # NullCell}
             IN  IF window = {} THEN NullCell
                 ELSE SumOver(input, window) \div Cardinality(window)]

\* r.reclass with the rule "* = 1", lines 233-239
reclass_all(input) ==
    [c \in Cells |-> IF input[c] = NullCell THEN NullCell ELSE 1]

\* r.stats.zonal method=sum, lines 243-249
stats_zonal_sum(base, cover) ==
    [c \in Cells |->
        IF base[c] = NullCell THEN NullCell
        ELSE LET zone == {d \in Cells : base[d] = base[c] /\ cover[d] # NullCell}
             IN  IF zone = {} THEN NullCell ELSE SumOver(cover, zone)]

\* lines 250-255: if (tmp_size > size_threshold, raster, null())
size_mapcalc(tmp_size, size_threshold, raster) ==
    [c \in Cells |->
        IF tmp_size[c] # NullCell /\ tmp_size[c] > size_threshold
        THEN raster[c] ELSE NullCell]

InOutputs == script = "r.hydro.flatten: outputs" /\ ePc # "idle"

\* lines 122-172: the breaklines as a raster, r.fill.stats, the holes, the
\* bands, the breaklines patched over the bands, r.reclass, r.clump and
\* the strip
outputs_strip ==
    /\ InOutputs
    /\ ePc = "strip"
    /\ eFill' = fill_stats(eGround)
    /\ eBuffer' = IF eOptions.breaklines
                  THEN r_patch(v_to_rast(eLines), r_buffer(holes_mapcalc(eFill')))
                  ELSE r_buffer(holes_mapcalc(eFill'))
    /\ eClump' = r_clump(reclass_for_clump(eBuffer'))
    /\ eStrip' = strip_mapcalc(eBuffer', eClump')
    /\ ePc' = "zonal"
    /\ UNCHANGED <<NotOutputs, eOptions, eGround, eLines, eElevationRes,
                   eStddevRes, eOut>>

\* lines 173-229: the percentile and the deviation over each strip, their
\* averages over each clump, and the two rasters without the strip; with
\* breaklines the elevation, and the elevation only, goes through
\* r.neighbors
outputs_zonal ==
    /\ InOutputs
    /\ ePc = "zonal"
    /\ LET t_elevation == stats_quantile(eStrip, eFill, eOptions.percentile)
           t_stddev == stats_zonal_stddev(eStrip, eFill)
           t_elevation_zonal == stats_zonal_average(eClump, t_elevation)
           t_stddev_zonal == stats_zonal_average(eClump, t_stddev)
       IN  /\ eElevationRes' =
                 IF eOptions.breaklines
                 THEN r_neighbors(zonal_res_mapcalc(eStrip, t_elevation_zonal),
                                  v_to_rast(eLines))
                 ELSE zonal_res_mapcalc(eStrip, t_elevation_zonal)
           /\ eStddevRes' = zonal_res_mapcalc(eStrip, t_stddev_zonal)
    /\ ePc' = "outputs"
    /\ UNCHANGED <<NotOutputs, eOptions, eGround, eLines, eFill, eBuffer,
                   eClump, eStrip, eOut>>

\* lines 230-260: with min_size, the areas of the elevation raster that
\* are not larger than the size are left out of both outputs
outputs_write ==
    /\ InOutputs
    /\ ePc = "outputs"
    /\ IF eOptions.min_size # 0
       THEN LET t_reclass == reclass_all(eElevationRes)
                t_clump_reclass == r_clump(t_reclass)
                t_size == stats_zonal_sum(t_clump_reclass, t_reclass)
            IN  eOut' = [water_elevation |->
                             size_mapcalc(t_size, eOptions.min_size, eElevationRes),
                         water_elevation_stddev |->
                             size_mapcalc(t_size, eOptions.min_size, eStddevRes)]
       ELSE eOut' = [water_elevation |-> eElevationRes,
                     water_elevation_stddev |-> eStddevRes]
    /\ ePc' = "done"
    /\ UNCHANGED <<NotOutputs, eOptions, eGround, eLines, eFill, eBuffer,
                   eClump, eStrip, eElevationRes, eStddevRes>>

InitOutputs ==
    /\ script = "r.hydro.flatten: outputs"
    /\ HydroIdle
    /\ MessIdle
    /\ SlopeIdle
    /\ PredictIdle
    /\ AttrIdle
    /\ RulesIdle
    /\ GbifIdle
    /\ BoxplotIdle
    /\ FlattenIdle
    /\ TwoIdle
    /\ MasksIdle
    /\ SetupIdle
    /\ CacheIdle
    /\ PipesIdle
    /\ VectorIdle
    /\ eOptions \in [percentile : Percentiles, breaklines : BOOLEAN,
                     min_size : MinSizes]
    /\ \E t \in Terrains, a \in Cells, b \in Cells :
          eGround = [c \in Cells |-> IF a <= c /\ c <= b THEN NullCell
                                     ELSE Elevation(t, c)]
    /\ IF eOptions.breaklines THEN \E c \in Cells : eLines = {c}
       ELSE eLines = {}
    /\ eFill = << >>
    /\ eBuffer = << >>
    /\ eClump = << >>
    /\ eStrip = << >>
    /\ eElevationRes = << >>
    /\ eStddevRes = << >>
    /\ eOut = [water_elevation |-> << >>, water_elevation_stddev |-> << >>]
    /\ ePc = "strip"

NextOutputs ==
    \/ outputs_strip
    \/ outputs_zonal
    \/ outputs_write

SpecOutputs == InitOutputs /\ [][NextOutputs]_vars

(***************************************************************************)
(* Specifications                                                          *)
(***************************************************************************)
\* the process runs one of the scripts
Init ==
    \/ InitHydro
    \/ InitMess
    \/ InitSlope
    \/ InitPredict
    \/ InitAttr
    \/ InitRules
    \/ InitGbif
    \/ InitBoxplot
    \/ InitFlatten
    \/ InitTwo
    \/ InitMasks
    \/ InitSetup
    \/ InitCache
    \/ InitPipes
    \/ InitVector
    \/ InitOutputs

Next ==
    \/ NextHydro
    \/ NextMess
    \/ NextSlope
    \/ NextPredict
    \/ NextAttr
    \/ NextRules
    \/ NextGbif
    \/ NextBoxplot
    \/ NextFlatten
    \/ NextTwo
    \/ NextMasks
    \/ NextSetup
    \/ NextCache
    \/ NextPipes
    \/ NextVector
    \/ NextOutputs

Spec == Init /\ [][Next]_vars

\* the scripts that keep a tracker of temporary names
SpecTrackers ==
    (InitHydro \/ InitMess \/ InitSlope)
    /\ [][NextHydro \/ NextMess \/ NextSlope]_vars

SpecHydroMess == (InitHydro \/ InitMess) /\ [][NextHydro \/ NextMess]_vars

\* the scripts that register cleanup() with atexit
SpecCleanup ==
    (InitHydro \/ InitMess \/ InitPredict \/ InitSlope)
    /\ [][NextHydro \/ NextMess \/ NextPredict \/ NextSlope]_vars

\* the scripts that write recode rules to scratch files
SpecScratch == (InitAttr \/ InitMess) /\ [][NextAttr \/ NextMess]_vars

\* the scripts that set the computational region
SpecRegion == (InitMess \/ InitPredict) /\ [][NextMess \/ NextPredict]_vars

(***************************************************************************)
(* Properties                                                              *)
(***************************************************************************)
\* the names get_name returns during a run of r.hydro.flatten
HydroTempNames ==
    {get_name_result(hOptions, hProg[i].base) :
        i \in {j \in 1..Len(hProg) : hProg[j].kind = "name"}}

\* the names create_temporary_name returns during a run of r.mess
MessTempNames ==
    {mProg[i].b : i \in {j \in 1..Len(mProg) : mProg[j].kind = "name"}}

\* C1: in r.hydro.flatten (run without -k) and in r.mess, once cleanup() has
\* run and its g.remove calls succeeded, no element whose name was generated
\* by get_name / create_temporary_name exists in the mapset, whether main
\* finished or aborted at any statement.
C1_NoTemporaryLeft ==
    /\ (script = "r.hydro.flatten" /\ hCleanups > 0 /\ ~hOptions.k
            /\ ~hDeleteFailed)
          => hGenerated \cap hLayers = {}
    /\ (script = "r.mess" /\ mCleanups > 0 /\ ~mDeleteFailed)
          => mGenerated \cap DOMAIN mLayers = {}

\* r.mess aborted inside the second loop iteration, a failed r.recode left
\* its output behind, and cleanup() has run
C1_Witness ==
    /\ script = "r.mess"
    /\ mPhase = "exited"
    /\ mExit = 1
    /\ mCleanups = 1
    /\ ~mDeleteFailed
    /\ mCalls # << >>
    /\ mCalls[Len(mCalls)] = 207
    /\ create_unique_name("tmp6", 2) \in mCreated

\* C2: in r.hydro.flatten without -k, r.mess and r.slopeunits.metrics, a
\* temporary layer name is in the tracker list (RAST_REMOVE, CLEAN_RAST,
\* rm_rasters / rm_vectors) when the engine call that creates the layer is
\* issued.  (The lists only grow during main, so the names created so far
\* are compared with the list as it is now.)
C2_RegisteredBeforeCreated ==
    /\ (script = "r.hydro.flatten" /\ ~hOptions.k)
          => (hCreated \cap HydroTempNames) \subseteq Range(RAST_REMOVE)
    /\ script = "r.mess"
          => (mCreated \cap MessTempNames) \subseteq Range(CLEAN_RAST)
    /\ script = "r.slopeunits.metrics"
          => (sCreated \cap (SlopeWorkingRasters \cup SlopeWorkingVectors))
                \subseteq ({R(n) : n \in Range(rm_rasters)}
                           \cup {V(n) : n \in Range(rm_vectors)})

\* C3: in r.hydro.flatten, when an engine call of main fails, it is the last
\* call main issues, no call is issued twice, the exit status is 1 and
\* cleanup() has run when the process is gone.
C3_AbortOnFailure ==
    script = "r.hydro.flatten" =>
        /\ NoDuplicates(hCalls)
        /\ hFailedLine # 0 =>
              /\ hCalls[Len(hCalls)] = hFailedLine
              /\ hPhase \in {"exiting", "exited"}
              /\ hExit = 1
              /\ hPhase = "exited" => hCleanups = 1

\* r.stats.zonal of line 190 failed and the process has ended
C3_Witness ==
    /\ script = "r.hydro.flatten"
    /\ hPhase = "exited"
    /\ hFailedLine = 190
    /\ hOptions.breaklines
    /\ Len(hCalls) > 10

\* C4: for r.mess and r.maxent.predict, the mapset's computational region
\* after the process has ended is the region it had before the script
\* started, however main ended and whatever the options and flags.
C4_RegionRestored ==
    /\ (script = "r.mess" /\ mPhase = "exited")
          => (WIND = "region:user" /\ WIND_OVERRIDE = "")
    /\ (script = "r.maxent.predict" /\ pPhase = "exited")
          => pWIND = "region:user"

\* C5: in r.mess every use_temp_region is undone by exactly one
\* del_temp_region, at most one temporary region is open at a time (so the
\* nesting is trivially last-in-first-out), and the region in effect after a
\* del_temp_region is the region that was in effect before its
\* use_temp_region.
C5_RegionPushPop ==
    script = "r.mess" =>
        /\ mPopOk
        /\ Len(mPushed) <= 1
        /\ mPushes = mPops + Len(mPushed)
        /\ mPhase = "exited" => (mPushed = << >> /\ WIND_OVERRIDE = "")

\* a run over two variables with ref_rast came to its normal end: five
\* temporary regions were opened and closed
C5_Witness ==
    /\ script = "r.mess"
    /\ mPhase = "exited"
    /\ mExit = 0
    /\ mOptions.nvars = 2
    /\ mOptions.ref = "ref_rast"
    /\ mPushes = 5
    /\ mPops = 5

\* C6: when a raster MASK exists at the start of r.mess, the run ends in
\* gs.fatal (status 1) without having issued a call that creates, renames or
\* removes an element or sets the region, and the MASK is still the user's.
C6_ExistingMaskIsFatal ==
    (script = "r.mess" /\ mMaskAtStart) =>
        /\ mMutations = 0
        /\ mCalls = << >>
        /\ Exists("MASK") /\ mLayers["MASK"] = "user"
        /\ WIND = "region:user" /\ WIND_OVERRIDE = ""
        /\ mPhase \in {"exiting", "exited"} => mExit = 1
        /\ mPhase = "main" => mPc = 1

\* the run with a MASK in the mapset has ended
C6_Witness ==
    /\ script = "r.mess"
    /\ mMaskAtStart
    /\ mPhase = "exited"
    /\ mExit = 1
    /\ mOptions.ref = "ref_rast"

\* the in-range branches of the similarity: 2 * f up to the median,
\* 2 * (100 - f) above it
C7_InRange(f) ==
    IF f.num <= 50 * f.den THEN Frac(2 * f.num, f.den)
    ELSE Frac(2 * (100 * f.den - f.num), f.den)

\* C7: in compute_ies, with min < max the extremes of the reference layer
\* and f the percentage recoded for the value v of a cell: f = 50 gives
\* similarity 100; v < min gives (v - min) / (max - min) * 100; f = 100
\* gives (max - v) / (max - min) * 100; and at v = min and at v = max the
\* in-range branch, applied to the f of that value, gives what the
\* extrapolation branch gives there.
C7_SimilarityFormula ==
    (script = "r.mess: recode rules" /\ rPc = "done" /\ envmin < envmax) =>
        /\ FracEq(rF, Frac(50, 1)) => FracEq(rIes, Frac(100, 1))
        /\ rV < envmin => FracEq(rIes, Quotient(rV - envmin, envmax - envmin))
        /\ FracEq(rF, Frac(100, 1))
              => FracEq(rIes, Quotient(envmax - rV, envmax - envmin))
        /\ rV = envmin
              => FracEq(C7_InRange(rF), Quotient(rV - envmin, envmax - envmin))
        /\ rV = envmax
              => FracEq(C7_InRange(rF), Quotient(envmax - rV, envmax - envmin))

\* C8: the recode rules written for a frequency table and a projection
\* range [Dmin, Dmax], in file order: lower <= upper in every rule; the
\* lower bound of a rule is the upper bound of the rule before it + 1; the
\* first lower bound is below, and the last upper bound above, every
\* reference value and Dmin and Dmax; the percentages do not decrease, the
\* first is 0 and the last is 100.
C8_RulesPartitionTheRange ==
    (script = "r.mess: recode rules" /\ rPc \in {"compute_ies", "done"}) =>
        LET n == Len(tmprule) IN
        /\ n >= 2
        /\ \A k \in 1..n : tmprule[k].lower <= tmprule[k].upper
        /\ \A k \in 2..n : tmprule[k].lower = tmprule[k - 1].upper + 1
        /\ \A x \in DOMAIN stval \cup {Dmin, Dmax} :
              tmprule[1].lower < x /\ x < tmprule[n].upper
        /\ \A k \in 2..n : FracLeq(tmprule[k - 1].value, tmprule[k].value)
        /\ FracEq(tmprule[1].value, Frac(0, 1))
        /\ FracEq(tmprule[n].value, Frac(100, 1))

\* rules of a table of three values with unequal counts, for a projection
\* layer that goes beyond the reference values on both sides
C8_Witness ==
    /\ script = "r.mess: recode rules"
    /\ rPc = "done"
    /\ Len(tmprule) = 4
    /\ DOMAIN stval = {0, 2, 3}
    /\ stval[0] = 2 /\ stval[2] = 1
    /\ Dmin < envmin
    /\ Dmax > envmax
    /\ rV = 1

\* the output name the text of C9 gives the j-th target column
C9_ExpectedName(j) ==
    IF aOptions.names = aOptions.cols THEN outNames(aOptions)[j]
    ELSE outNames(aOptions)[1] \o "_" \o AttrHeader(aOptions, j)

\* C9: r.recode.attr with K target columns and N output names, when no
\* output exists already and no r.recode fails: exactly K recodes are
\* issued, the j-th on the same input with the rules value:value:target of
\* the j-th target column, named by the j-th output name when N = K and
\* <first output name>_<header of the j-th target column> otherwise.
C9_OneRecodePerColumn ==
    (script = "r.recode.attr" /\ aPhase = "exited" /\ aOptions.existing = 0
        /\ aHow # "CalledModuleError") =>
        /\ Len(aRecodes) = aOptions.cols
        /\ \A j \in 1..Len(aRecodes) :
              /\ aRecodes[j].input = "inputmap"
              /\ aRecodes[j].output = C9_ExpectedName(j)
              /\ aRecodes[j].rules =
                    [r \in 1..aOptions.rows |->
                        <<AttrCell(r, 0), AttrCell(r, 0), AttrCell(r, j)>>]

\* C10: in r.maxent.predict r.in.gdal is issued only after Maxent returned 0
\* and the output file exists; when Maxent returned non-zero, or returned 0
\* without the output file, main ends in gs.fatal, and for a non-zero return
\* the message is the 'Check variable names' text if the signature was seen
\* in stderr and 'Maxent terminated with an error' otherwise.
C10_ImportOnlyAfterSuccess ==
    script = "r.maxent.predict" =>
        /\ pImported => (returncode = 0 /\ "temp_file" \in pFiles)
        /\ (pPhase = "exited" /\ returncode >= 0
               /\ (returncode # 0 \/ "temp_file" \notin pFiles))
              => (pHow = "fatal" /\ pMsg # "")
        /\ (pPhase = "exited" /\ returncode > 0)
              => pMsg = IF missing_variables # "<unbound>"
                        THEN "Check variable names and path + names of input files"
                        ELSE "Maxent terminated with an error"

\* C11: in process_csv the fallback call (utf-8, errors replaced) is made if
\* and only if the primary call raised UnicodeDecodeError; any other
\* exception of the primary call is fatal with no fallback call; a run whose
\* primary call raised UnicodeDecodeError is fatal only when the fallback
\* call raised too; and after a fallback call that succeeded the output file
\* holds one row per input row, as the fallback decodes it, and nothing else.
C11_EncodingFallback ==
    script = "v.in.gbif" =>
        /\ Len(gAttempts) <= 2
        /\ Len(gAttempts) = 2 =>
              /\ gAttempts = <<"strict", "replace">>
              /\ gRaised[1] = "UnicodeDecodeError"
        /\ (gPc \in {"returned", "fatal"} /\ gRaised # << >>
               /\ gRaised[1] = "UnicodeDecodeError")
              => Len(gAttempts) = 2
        /\ (gRaised # << >> /\ gRaised[1] \notin {"", "UnicodeDecodeError"})
              => (gPc = "fatal" /\ Len(gAttempts) = 1)
        /\ (gPc = "fatal" /\ gRaised[1] = "UnicodeDecodeError")
              => (Len(gRaised) = 2 /\ gRaised[2] # "")
        /\ gPc = "fatal" => gMsg # ""
        /\ (gPc = "returned" /\ Len(gAttempts) = 2) =>
              gOut = [k \in 1..Len(gRows) |->
                         IF gRows[k] = "invalid" THEN "replaced" ELSE gRows[k]]

\* the primary call failed on the last row of three, after which the
\* fallback call wrote all three rows
C11_Witness ==
    /\ script = "v.in.gbif"
    /\ gPc = "returned"
    /\ gLocale = "ascii"
    /\ gRows = <<"plain", "utf8", "invalid">>
    /\ gRaised = <<"UnicodeDecodeError", "">>
    /\ Len(gOut) = 3

\* C12: v.boxplot with group_by and an order: there is one box per group of
\* the table, each box shows the values of the group of its label, the
\* positions are the numbers 0..n-1, and a box whose group has the higher
\* median stands before (order=descending) or after (order=ascending) a box
\* whose group has the lower median; groups with medians A=1, B=3, C=2 and
\* order=descending are drawn in the order B, C, A.
C12_BoxesOrderedByMedian ==
    (script = "v.boxplot" /\ bPc = "done" /\ bOrder # "") =>
        LET S == {df[k][1] : k \in 1..Len(df)}
            m(b) == median2(ValuesOf(df, b.label))
        IN  /\ {b.label : b \in bBoxes} = S
            /\ Cardinality(bBoxes) = Cardinality(S)
            /\ {b.position : b \in bBoxes} = 0..(Cardinality(S) - 1)
            /\ \A b \in bBoxes : b.values = ValuesOf(df, b.label)
            /\ \A x, y \in bBoxes :
                  (IF bOrder = "descending" THEN m(x) > m(y) ELSE m(x) < m(y))
                     => x.position < y.position
            /\ (df = <<<<"A", 1>>, <<"B", 3>>, <<"C", 2>>>>
                   /\ bOrder = "descending")
                  => {<<b.position, b.label>> : b \in bBoxes}
                        = {<<0, "B">>, <<1, "C">>, <<2, "A">>}

\* the three groups of the example were drawn with order=descending, from a
\* uid that listed them in another order
C12_Witness ==
    /\ script = "v.boxplot"
    /\ bPc = "done"
    /\ bOrder = "descending"
    /\ df = <<<<"A", 1>>, <<"B", 3>>, <<"C", 2>>>>
    /\ uid = <<"C", "A", "B">>
    /\ sfo = <<1, 2, 0>>


\* the distance of each cell to the nearest cell the filled elevation leaves
\* without data (RegionCols + 1 when there is none)
C13_Distance ==
    [c \in Cells |->
        LET D == {Abs(d - c) : d \in {e \in Cells : rfillstats[e] = NullCell}}
        IN  IF D = {} THEN RegionCols + 1 ELSE CHOOSE k \in D : \A j \in D : k <= j]

RECURSIVE C13_Tabulate(_, _)
\* the values f[c], f[c + 1], ..., f[RegionCols] as a sequence
C13_Tabulate(f, c) ==
    IF c > RegionCols THEN << >> ELSE <<f[c]>> \o C13_Tabulate(f, c + 1)

\* the cells of the water body of cell c: the cells joined to c by cells that
\* all lie within buffer_last_strip - 1 cells of a cell without data
C13_WaterBody(dist, c) ==
    {d \in Cells : \A e \in Cells :
        ((c <= e /\ e <= d) \/ (d <= e /\ e <= c))
            => dist[e] <= buffer_last_strip - 1}

\* the outermost band of a water body
C13_Band(dist, body) == {d \in body : dist[d] = buffer_last_strip - 1}

\* C13: without breaklines and without min_size, every cell of a water body
\* that is not in its outermost band carries, in water_elevation, the
\* requested percentile of the filled elevation over the cells of that band
\* (so all of them carry one value); the cells of the band, and the cells
\* outside every water body, are null. A water body that has no outermost
\* band inside the region has no percentile and is null.
C13_PercentileOfStrip ==
    (script = "r.hydro.flatten" /\ fPc = "done") =>
        LET dist == C13_Tabulate(C13_Distance, 1)
            body == C13_Tabulate([c \in Cells |-> C13_WaterBody(dist, c)], 1)
            band == C13_Tabulate([c \in Cells |-> C13_Band(dist, body[c])], 1)
        IN  /\ \A c \in Cells :
                  water_elevation[c] =
                      IF body[c] = {} \/ c \in band[c] \/ band[c] = {}
                      THEN NullCell
                      ELSE quantile2(CoverValues(rfillstats, band[c], 1), fPercentile)
            /\ \A c, d \in Cells :
                  (d \in body[c] /\ c \notin band[c] /\ d \notin band[c])
                      => water_elevation[c] = water_elevation[d]
            /\ (ground = [c \in Cells |-> IF c \in {6, 7} THEN NullCell ELSE c]
                   /\ fPercentile = 50)
                  => water_elevation = [c \in Cells |-> IF c \in 3..10 THEN 13 ELSE NullCell]

C13_Witness ==
    /\ script = "r.hydro.flatten"
    /\ fPc = "done"
    /\ fPercentile = 100
    /\ ground = [c \in Cells |-> IF c \in {1, 2, 6, 12, 13} THEN NullCell ELSE c]
    /\ rfillstats = <<0, 0, 3, 4, 5, 6, 7, 8, 9, 10, 11, 0, 0>>
    /\ fStrip = <<0, 0, 0, 0, 0, 1, 0, 2, 0, 0, 0, 0, 0>>
    /\ water_elevation = <<12, 12, 12, 12, 12, 0, 0, 0, 16, 16, 16, 16, 16>>


\* C14: in r.mess, r.slopeunits.metrics and r.hydro.flatten, once cleanup()
\* has run, a delete was attempted for every tracked name even when the
\* delete of one of them failed: as g.remove fails on at most one name, at
\* most one tracked name is still in the mapset.
C14_CleanupGoesOn ==
    /\ (script = "r.mess" /\ mCleanups > 0)
          => Cardinality(Range(CLEAN_RAST) \cap DOMAIN mLayers) <= 1
    /\ (script = "r.hydro.flatten" /\ hCleanups > 0)
          => Cardinality(Range(RAST_REMOVE) \cap hLayers) <= 1
    /\ (script = "r.slopeunits.metrics" /\ sCleanups > 0)
          => Cardinality(({R(n) : n \in Range(rm_rasters)}
                             \cup {V(n) : n \in Range(rm_vectors)})
                         \cap DOMAIN sLayers) <= 1


\* C15: in r.hydro.flatten, r.mess, r.maxent.predict and
\* r.slopeunits.metrics, cleanup() never runs twice, and it has run exactly
\* once when the process is gone, whether main returned or the run ended
\* through a fatal error at any statement.
C15_CleanupExactlyOnce ==
    /\ hCleanups <= 1 /\ mCleanups <= 1 /\ pCleanups <= 1 /\ sCleanups <= 1
    /\ (script = "r.hydro.flatten" /\ hPhase = "exited") => hCleanups = 1
    /\ (script = "r.mess" /\ mPhase = "exited") => mCleanups = 1
    /\ (script = "r.maxent.predict" /\ pPhase = "exited") => pCleanups = 1
    /\ (script = "r.slopeunits.metrics" /\ sPhase = "exited") => sCleanups = 1

\* r.maxent.predict ended through a fatal error and cleanup() has run once
C15_Witness ==
    /\ script = "r.maxent.predict"
    /\ pPhase = "exited"
    /\ pHow = "fatal"
    /\ pCalls # << >>
    /\ pCleanups = 1


\* C16: for two runs of r.hydro.flatten, of r.mess or of
\* r.slopeunits.metrics executing concurrently in one mapset, no temporary
\* or intermediate layer name is created by both runs.
C16_TemporaryNamesDisjoint ==
    (script \in {"r.hydro.flatten", "r.mess", "r.slopeunits.metrics"} /\ InTwo)
        => tCreated[1] \cap tCreated[2] = {}


\* C17: two runs of r.mess with ref_rast executing concurrently in one mapset
\* share the one raster MASK.  A run's g.rename to or from MASK fails only on
\* what the other run did to MASK (it put it there, or took it away); a run
\* computes its reference statistics under the raster that is MASK at that
\* moment, the other run's mask included; when existing rasters are not
\* replaced the conflict always shows as a failed call and the statistics a
\* run gets are under the MASK it put there itself.  Both conflicts are
\* reachable: C17_Witness and C17_WitnessStatistics.
C17_MaskIsShared ==
    (script = "r.mess" /\ InMasks) =>
        \A run \in Runs :
            /\ kFailed[run].line \in {422, 435, 527}
                  => (kFailed[run].of # 0 /\ kFailed[run].by = OtherRun(run))
            /\ kFailed[run].line \in {424, 457}
                  => (kFailed[run].of = 0 /\ kFailed[run].by = OtherRun(run))
            /\ \A i \in 1..Len(kStats[run]) :
                  /\ kStats[run][i].of # 0 => kStats[run][i].of \in Runs
                  /\ ~kOverwrite => kStats[run][i] = [of |-> run, by |-> run]
            /\ (kPc[run] = "r.stats" /\ ~kOverwrite)
                  => (kMASK = [of |-> run, by |-> run]
                      /\ kPc[OtherRun(run)] # "r.stats")

\* run 2 has put its mask back as MASK and run 1's g.rename of its own mask
\* to MASK (line 435) failed on it
C17_Witness ==
    /\ script = "r.mess"
    /\ InMasks
    /\ ~kOverwrite
    /\ kFailed[1] = [line |-> 435, of |-> 2, by |-> 2]
    /\ kPc[2] = "r.stats"
    /\ kMASK = [of |-> 2, by |-> 2]

\* run 1 has computed its reference statistics under the mask of run 2
C17_WitnessStatistics ==
    /\ script = "r.mess"
    /\ InMasks
    /\ kPc[1] = "g.rename 457"
    /\ kStats[1] = <<[of |-> 2, by |-> 1]>>


\* what the claim asks of one target file of r.maxent.setup once the
\* function that writes it has run with a valid source path: an existing
\* file without -u is left as it was and the run is fatal with the message
\* that names -u; with -u it is replaced; a file that did not exist is
\* created
C18_Target(before, after, exists_message) ==
    IF before = "old" /\ ~uOptions.u
    THEN after = "old" /\ uHow = "fatal" /\ exists_message \in Range(uMsg)
    ELSE after = "new"

\* the run ended inside set_path_to_java
C18_FatalInSetPath ==
    /\ uHow = "fatal"
    /\ Range(uMsg) \cap {"java executable not found", "text file exists, use -u"} # {}

\* C18: in r.maxent.setup, for maxent.jar (install_maxent) and for the java
\* text file (set_path_to_java): an existing target without -u is left
\* unchanged and the script ends with the fatal error that names -u; with -u
\* the existing file is replaced; when there is no file it is created.
C18_UpdateFlag ==
    /\ (script = "r.maxent.setup" /\ uOptions.java = "a file"
            /\ uPc \in {"maxent", "exited"})
          => C18_Target(uBefore.txt, uFiles.txt, "text file exists, use -u")
    /\ (script = "r.maxent.setup" /\ uOptions.maxent = "maxent.jar"
            /\ uPc = "exited" /\ ~C18_FatalInSetPath)
          => C18_Target(uBefore.jar, uFiles.jar, "maxent.jar exists, use -u")


C20_MessRulesFiles ==
    {mProg[i].a : i \in {j \in 1..Len(mProg) :
        mProg[j].kind = "mkstemp" /\ mProg[j].line \in {381, 493}}}

\* C20: when r.recode.attr or r.mess has exited, normally or through a fatal
\* error raised between the creation of a rules scratch file and its
\* removal, no rules scratch file the run made with mkstemp exists.
C20_NoRulesFileLeft ==
    /\ (script = "r.recode.attr" /\ aPhase = "exited") => aFiles = 0
    /\ (script = "r.mess" /\ mPhase = "exited")
          => mFiles \cap C20_MessRulesFiles = {}


\* ---------------------------------------------------------------------
\* C21  r.hydro.flatten, main() lines 120-272: for every combination of
\* breaklines, min_size and filled_elevation, every layer an engine call
\* is about to read is either a layer of the user (input, breaklines) or
\* the output of a call that has already completed, the name it writes
\* has been produced by get_name or is an output option, and the calls
\* run in the order of the stages: hole mask (141), buffer (143), reclass
\* (160), clump (168), strip (170), quantile (174) and stddev (182) per
\* strip, zonal broadcast (190, 198), restriction (210/222, 227).
C21_StageOrder == <<141, 143, 160, 168, 170, 174, 182, 190, 198>>

C21_InputsAlreadyProduced ==
    script = "r.hydro.flatten" /\ hPhase \in {"main", "exiting", "exited"} =>
        /\ (hPhase = "main" /\ hPc <= Len(hProg) /\ HydroStmt.kind = "call") =>
               /\ HydroStmt.in \subseteq HydroUserLayers \cup hCreated
               /\ HydroStmt.in \subseteq hLayers
               /\ HydroStmt.out \in hGenerated \cup
                      {"", "water_elevation", "water_elevation_stddev",
                       "filled_elevation"}
        /\ \A i, j \in 1..Len(hCalls) : i < j => hCalls[i] < hCalls[j]
        /\ \A i \in 1..Len(C21_StageOrder) :
               (\E n \in 1..Len(hCalls) : hCalls[n] = C21_StageOrder[i]) =>
                   \A j \in 1..(i - 1) :
                       \E n \in 1..Len(hCalls) : hCalls[n] = C21_StageOrder[j]

\* A complete run with breaklines, min_size and filled_elevation: the
\* healing call (214), the size filter (253) and the final patch (266)
\* have all read their inputs.
C21_Witness ==
    /\ script = "r.hydro.flatten"
    /\ hPhase = "exited"
    /\ hOptions.breaklines /\ hOptions.min_size /\ hOptions.filled_elevation
    /\ hFailedLine = 0
    /\ \E n \in 1..Len(hCalls) : hCalls[n] = 214
    /\ \E n \in 1..Len(hCalls) : hCalls[n] = 253
    /\ \E n \in 1..Len(hCalls) : hCalls[n] = 266


\* ---------------------------------------------------------------------
\* C22  Round trip of the cached path to java: after set_path_to_java of
\* r.maxent.setup has written the path P, with P an existing, functional
\* file, check_java_txtfile of r.maxent.predict returns exactly P and the
\* main of r.maxent.predict, run without the java option, takes P as the
\* interpreter.  The writer stores P as it is (file.write, line 166)
\* while the reader keeps the first line only and strips it (readline()
\* and strip(), line 245): a path that ends with a blank, such as "j ",
\* is read back as "j", and the interpreter is then another file, the
\* java of the system, or nothing.
C22_RoundTrip ==
    (/\ script = "r.maxent.setup, r.maxent.predict"
     /\ cPc = "done"
     /\ cWritten
     /\ normpath(cJava) \in cFiles
     /\ normpath(cJava) \in cFunctional) =>
        /\ cJav = normpath(cJava)
        /\ cPathToJava = normpath(cJava)


\* ---------------------------------------------------------------------
\* C23  r.mess with a reference raster: whichever way the run ends,
\* normally or with an engine call of recode_reference_rasters failing,
\* the mapset holds no raster MASK once cleanup() has run.  The run
\* started without a MASK (line 526) and every g.remove of cleanup()
\* succeeded.  cleanup() removes the names of CLEAN_RAST only: the mask
\* is in that list under its temporary name, so a failure between the
\* rename to MASK (line 435) and the rename back (line 457) leaves the
\* layer under the name MASK.
C23_NoMaskLeft ==
    (/\ script = "r.mess"
     /\ mPhase = "exited"
     /\ mOptions.ref = "ref_rast"
     /\ ~mMaskAtStart
     /\ ~mDeleteFailed
     /\ mCleanups = 1
     /\ \/ mExit = 0
        \/ /\ mCalls # << >>
           /\ mCalls[Len(mCalls)] \in 425..516) =>
        ~Exists("MASK")


\* ---------------------------------------------------------------------
\* C24  r.maxent.predict, main: every local variable is bound when it is
\* read.  path_to_java is bound when the Maxent command is built (line
\* 417), also when no lookup of java succeeded; missing_variables is
\* bound when the return code is checked (line 455), also when no line
\* of stderr held java.util.NoSuchElementException; the run never ends
\* with an unbound-variable exception.  Lines 293-302 only warn and
\* assign nothing, and line 449 is the only assignment of
\* missing_variables.
C24_VariablesBound ==
    script = "r.maxent.predict" =>
        /\ (pPhase = "main" /\ pPc = "command") => path_to_java # "<unbound>"
        /\ (pPhase = "main" /\ pPc = "returncode" /\ returncode # 0) =>
               missing_variables # "<unbound>"
        /\ pHow # "UnboundLocalError"


\* ---------------------------------------------------------------------
\* C25  r.maxent.predict, lines 435-458: with pipes of bounded capacity
\* there is no reachable state in which the script is blocked reading
\* stdout while the subprocess is blocked writing stderr.  The script
\* empties stdout up to its end before it reads stderr at all, and the
\* end of stdout comes only when the subprocess exits: a subprocess that
\* writes more lines to stderr than the pipe holds stops in its write,
\* stdout stays open and empty, and neither side moves again.
C25_NoDeadlock ==
    ~(/\ script = "r.maxent.predict, Maxent"
      /\ qStage = "stdout"
      /\ qStdout = << >>
      /\ qAlive
      /\ qChild # << >>
      /\ Head(qChild) # "out"
      /\ Len(qStderr) = PipeCapacity)


\* ---------------------------------------------------------------------
\* C26  r.maxent.predict: cleanup() removes the export directory if and
\* only if the script created it.  Without projectionlayers the
\* directory of gs.tempdir() (line 352) is gone once cleanup() has run;
\* with projectionlayers the directory of the user is never removed.
\* cleanup() (lines 159-164) calls shutil.rmtree(temp_directory), but
\* temp_directory is a local of main: the lookup raises NameError, the
\* bare except swallows it, and the directory with the exported layers
\* stays.
C26_ExportDirectoryRemoved ==
    (/\ script = "r.maxent.predict"
     /\ pPhase = "exited"
     /\ pCleanups >= 1) =>
        IF pOptions.projectionlayers
        THEN temp_directory \in {"<unbound>", "options[projectionlayers]"}
        ELSE temp_directory = "gs.tempdir()" => "gs.tempdir()" \notin pFiles


\* ---------------------------------------------------------------------
\* C27  r.mess, recode_reference_vector: for every set of sampled values
\* and every digits, also when two distinct sampled values discretise to
\* the same integer, every rule written to tmprule has lower <= upper and
\* the rules follow each other without overlap and without gap.  The
\* rule of row k runs from a0[k-1] to a0[k] - 1 (lines 375-378): when the
\* two values are the same integer the rule is a0[k] : a0[k] - 1, its
\* lower limit above its upper limit.
C27_VectorRulesWellFormed ==
    (script = "r.mess: recode_reference_vector" /\ vPc = "done") =>
        /\ \A k \in 1..Len(vRule) : vRule[k].lower <= vRule[k].upper
        /\ \A k \in 2..Len(vRule) : vRule[k].lower = vRule[k - 1].upper + 1


\* ---------------------------------------------------------------------
\* C28  r.slopeunits.metrics overwrites and deletes only layers that it
\* created itself: a layer of the user that is in the mapset, a raster
\* MASK or a layer with one of the fixed working names, is still there
\* and unchanged after every step of the run.  Lines 114-115 remove
\* whatever MASK is found before r.mask is called, and the working
\* layers are written with overwrite=True and removed by name at lines
\* 424-435 and in cleanup().
C28_UserLayersUntouched ==
    [][script = "r.slopeunits.metrics" =>
          \A n \in DOMAIN sLayers :
              sLayers[n] = "user" =>
                  (n \in DOMAIN sLayers' /\ sLayers'[n] = "user")]_vars


\* ---------------------------------------------------------------------
\* C29  r.recode.attr creates all its outputs or none: when one of the
\* output names exists in the mapset, the run ends with the fatal error
\* 'already exist in this mapset' without having created any output, all
\* the existence checks coming before the first r.recode.  The check of
\* lines 128-130 is inside the loop over the columns, after the r.recode
\* of the columns before: with the name of a later column taken, the
\* layers of the earlier columns are already written when the run stops.
C29_AllOrNothing ==
    (script = "r.recode.attr" /\ aOptions.existing > 0 /\ aHow = "fatal") =>
        /\ aRecodes = << >>
        /\ aLayers = {AttrOutputName(aOptions, aOptions.existing - 1)}


\* ---------------------------------------------------------------------
\* C30  r.hydro.flatten: water_elevation and water_elevation_stddev have
\* data on exactly the same cells, for every combination of the options,
\* with or without breaklines and with or without min_size.  With
\* breaklines the cells the breaklines cross are null in the clumps, so
\* in both rasters; r.neighbors (lines 214-220) then fills them in the
\* elevation raster only, and the deviation raster (lines 227-229) keeps
\* the holes.
C30_SameFootprint ==
    (script = "r.hydro.flatten: outputs" /\ ePc = "done") =>
        \A c \in Cells :
            (eOut.water_elevation[c] = NullCell)
                <=> (eOut.water_elevation_stddev[c] = NullCell)

====
